---- MODULE Spec2Model ----
(***************************************************************************)
(* State-machine model of the DamaDam target scraper's synchronisation     *)
(* engine: SheetsManager (sheets_manager.py), the helpers of               *)
(* core_scraper.py it uses, and the run loop of target_scraper.py.         *)
(*                                                                         *)
(* Text is modelled by TLA+ strings, manipulated character by character    *)
(* (Len, SubSeq, \o), so that strip / lower / clean_data are computed as   *)
(* the code computes them.  A worksheet is a sequence of rows; row k of    *)
(* the sequence is sheet row k (1-based), row 1 being the header.          *)
(***************************************************************************)
EXTENDS Integers, Sequences, FiniteSets, TLC

(***************************************************************************)
(* Bounds of the model.                                                    *)
(***************************************************************************)
\* write_profile calls that reach the index lookup, in one behaviour
MaxCalls == 2
\* safe_update calls (or raw remote reads) that end in failure in one behaviour
MaxFailedOps == 1

(***************************************************************************)
(* Program constants.                                                      *)
(***************************************************************************)
\* safe_update(..., max_retries=3)
max_retries == 3
\* SHEET_WRITE_DELAY = 0.8 s, in tenths of a second
SHEET_WRITE_DELAY == 8
\* wait_time = (attempt + 1) * 5, in seconds
BackoffSeconds == 5

COLUMN_ORDER ==
    << "IMAGE", "NICK NAME", "TAGS", "LAST POST", "LAST POST TIME", "FRIEND", "CITY",
       "GENDER", "MARRIED", "AGE", "JOINED", "FOLLOWERS", "STATUS",
       "POSTS", "PROFILE LINK", "INTRO", "SOURCE", "DATETIME SCRAP" >>

NCols == Len(COLUMN_ORDER)

Cols == { COLUMN_ORDER[i] : i \in 1..NCols }

\* COLUMN_TO_INDEX, 0-based as in the code
COLUMN_TO_INDEX(name) == (CHOOSE i \in 1..NCols : COLUMN_ORDER[i] = name) - 1

LINK_COLUMNS == { "IMAGE", "LAST POST", "PROFILE LINK" }

LOG_HEADERS == << "Timestamp", "Nickname", "Change Type", "Fields", "Before", "After" >>

(***************************************************************************)
(* Text helpers (Python str methods).                                      *)
(***************************************************************************)
CharAt(s, i) == SubSeq(s, i, i)

IsSpace(c) == c \in { " ", "\t", "\n", "\r" }

UpperLetters == "ABCDEFGHIJKLMNOPQRSTUVWXYZ"
LowerLetters == "abcdefghijklmnopqrstuvwxyz"

\* the letters one by one
UpperChars == [ i \in 1..Len(UpperLetters) |-> CharAt(UpperLetters, i) ]
LowerChars == [ i \in 1..Len(LowerLetters) |-> CharAt(LowerLetters, i) ]

\* str.lower() on one character
LowerChar(c) ==
    IF \E i \in 1..Len(UpperChars) : UpperChars[i] = c
    THEN LowerChars[CHOOSE i \in 1..Len(UpperChars) : UpperChars[i] = c]
    ELSE c

\* str.upper() on one character
UpperChar(c) ==
    IF \E i \in 1..Len(LowerChars) : LowerChars[i] = c
    THEN UpperChars[CHOOSE i \in 1..Len(LowerChars) : LowerChars[i] = c]
    ELSE c

RECURSIVE Upper(_)
\* str.upper()
Upper(s) == IF s = "" THEN "" ELSE UpperChar(CharAt(s, 1)) \o Upper(SubSeq(s, 2, Len(s)))

RECURSIVE Lower(_)
\* str.lower()
Lower(s) == IF s = "" THEN "" ELSE LowerChar(CharAt(s, 1)) \o Lower(SubSeq(s, 2, Len(s)))

RECURSIVE LStrip(_)
LStrip(s) == IF s # "" /\ IsSpace(CharAt(s, 1)) THEN LStrip(SubSeq(s, 2, Len(s))) ELSE s

RECURSIVE RStrip(_)
RStrip(s) == IF s # "" /\ IsSpace(CharAt(s, Len(s))) THEN RStrip(SubSeq(s, 1, Len(s) - 1)) ELSE s

\* str.strip()
Strip(s) == RStrip(LStrip(s))

RECURSIVE Join(_, _)
\* sep.join(seq)
Join(sep, seq) ==
    IF Len(seq) = 0 THEN ""
    ELSE IF Len(seq) = 1 THEN seq[1]
    ELSE seq[1] \o sep \o Join(sep, Tail(seq))

(***************************************************************************)
(* core_scraper.py helpers.                                                *)
(***************************************************************************)
replace_with_blank ==
    { "No city", "Not set", "[No Posts]", "N/A",
      "no city", "not set", "[no posts]", "n/a",
      "[No Post URL]", "[Error]", "no set", "none", "null", "no age" }

\* clean_data(value)
clean_data(value) ==
    IF value = "" THEN ""
    ELSE LET v == Strip(value) IN IF v \in replace_with_blank THEN "" ELSE v

\* mutant: the same backoff after every throttled attempt
wait_time_fixed(attempt) == BackoffSeconds * 10

\* wait_time of the throttling branch, in tenths of a second
wait_time(attempt) == (attempt + 1) * BackoffSeconds * 10

\* Key order of the dict scrape_profile builds; main() adds SOURCE last
DataKeyOrder ==
    << "NICK NAME", "DATETIME SCRAP", "PROFILE LINK", "TAGS", "CITY", "GENDER",
       "MARRIED", "AGE", "JOINED", "FOLLOWERS", "POSTS", "LAST POST",
       "LAST POST TIME", "IMAGE", "INTRO", "STATUS", "FRIEND", "SOURCE" >>

\* json.dumps(d, ensure_ascii=False) of a str -> str dict whose keys come in `order`
JsonDumps(d, order) ==
    "{" \o Join(", ", [ i \in 1..Len(order) |->
                          "\"" \o order[i] \o "\": \"" \o d[order[i]] \o "\"" ]) \o "}"

\* text[:500]
Truncate500(text) == SubSeq(text, 1, IF Len(text) < 500 THEN Len(text) ELSE 500)

(***************************************************************************)
(* Inputs: the records handed to write_profile.  Every declared field is   *)
(* present; the fields not listed are empty.                               *)
(***************************************************************************)
Rec(nick, city, image, post, tags) ==
    [ c \in Cols |->
        CASE c = "NICK NAME"    -> nick
          [] c = "CITY"         -> city
          [] c = "IMAGE"        -> image
          [] c = "LAST POST"    -> post
          [] c = "TAGS"         -> tags
          [] c = "PROFILE LINK" -> IF Strip(nick) = "" THEN "" ELSE "https://damadam.pk/users/" \o Strip(nick) \o "/"
          [] c = "STATUS"       -> "Verified"
          [] OTHER              -> "" ]

Records ==
    { Rec("sam", "Lahore", "", "", ""),
      Rec("sam", "Lahore", "i1", "", ""),
      Rec(" Sam", "Karachi", "", "", ""),
      Rec("bob", "N/A", "", "p1", ""),
      Rec("", "Lahore", "", "", ""),
      Rec("  ", "Lahore", "", "", "") }

(***************************************************************************)
(* State.                                                                  *)
(***************************************************************************)
VARIABLES
    profiles,           \* "Profiles" worksheet: rows [vals, fx]; vals = displayed cells
    logs,               \* "Logs" worksheet: rows of six cells, header first
    tags_sheet,         \* "Tags" worksheet: rows of cells, header first
    existing_profiles,  \* SheetsManager.existing_profiles: nickname -> [row, data]
    tags_mapping,       \* SheetsManager.tags_mapping: nickname -> tags text
    pc,                 \* position of the SheetsManager method in progress
    wp,                 \* locals of the write_profile call in progress / last returned
    su,                 \* frame of the safe_update call in progress
    loop,               \* safe_update's retry loop, when followed attempt by attempt
    result,             \* value returned by the last write_profile call
    ops,                \* safe_update calls made by the current write_profile call
    pre,                \* index, tables and prev as they were when the current call began
    prev,               \* the last write_profile call that reached the index lookup
    ncalls,             \* write_profile calls that reached the index lookup so far
    failedOps,          \* remote operations that ended in failure so far
    run,                \* main(): locals of the run in progress, and how past runs ended
    target_sheet,       \* "Target" worksheet: rows <<nickname, status, remarks, source>>
    dashboard,          \* "Dashboard" worksheet: rows of cells
    helper              \* the core_scraper helper call followed on its own, if any

vars == << profiles, logs, tags_sheet, existing_profiles, tags_mapping,
           pc, wp, su, loop, result, ops, pre, prev, ncalls, failedOps,
           run, target_sheet, dashboard, helper >>

\* the state of main() and of the worksheets only main() uses
runVars == << run, target_sheet, dashboard >>

remoteVars == << profiles, logs, tags_sheet >>

NoFormulas == [ c \in LINK_COLUMNS |-> "" ]

\* a sheet row holding plain values only
PlainRow(values) == [ vals |-> values, fx |-> NoFormulas ]

\* worksheet.get_all_values() of the Profiles sheet
ProfilesValues(sheet) == [ k \in 1..Len(sheet) |-> sheet[k].vals ]

EmptyMap == [ k \in {} |-> "" ]

\* dict with key k set to v
Put(m, k, v) == [ x \in (DOMAIN m) \cup {k} |-> IF x = k THEN v ELSE m[x] ]

(***************************************************************************)
(* SheetsManager: loading.                                                 *)
(***************************************************************************)
RECURSIVE TagsLoop(_, _, _, _)
\* load_tags_mapping: the two nested loops, column by column, row by row
TagsLoop(all_data, col, row, acc) ==
    IF col > Len(all_data[1]) THEN acc
    ELSE IF Strip(all_data[1][col]) = "" \/ row > Len(all_data)
         THEN TagsLoop(all_data, col + 1, 2, acc)
    ELSE LET tag_name_clean == Strip(all_data[1][col])
             nickname == IF col <= Len(all_data[row]) THEN Strip(all_data[row][col]) ELSE ""
             nickname_lower == Lower(nickname)
         IN  IF nickname = "" THEN TagsLoop(all_data, col, row + 1, acc)
             ELSE IF nickname_lower \in DOMAIN acc
                  THEN TagsLoop(all_data, col, row + 1,
                                Put(acc, nickname_lower, acc[nickname_lower] \o ", " \o tag_name_clean))
             ELSE TagsLoop(all_data, col, row + 1, Put(acc, nickname_lower, tag_name_clean))

\* load_tags_mapping on the values of the Tags sheet
load_tags_mapping(all_data) ==
    IF Len(all_data) < 2 THEN EmptyMap ELSE TagsLoop(all_data, 1, 2, EmptyMap)

\* get_tags_for_nickname
get_tags_for_nickname(mapping, nickname) ==
    IF Lower(nickname) \in DOMAIN mapping THEN mapping[Lower(nickname)] ELSE ""

RECURSIVE LoadLoop(_, _, _)
\* load_existing_profiles: the loop over get_all_values()[1:], idx from 2
LoadLoop(values, idx, acc) ==
    IF idx > Len(values) THEN acc
    ELSE LET row == values[idx]
             nickname == IF Len(row) > 1 THEN Lower(Strip(row[2])) ELSE ""
         IN  IF nickname # ""
             THEN LoadLoop(values, idx + 1, Put(acc, nickname, [ row |-> idx, data |-> row ]))
             ELSE LoadLoop(values, idx + 1, acc)

\* mutant: the header row is read as a profile row
load_existing_profiles_with_header(values, read_ok) ==
    IF read_ok THEN LoadLoop(values, 1, EmptyMap) ELSE EmptyMap

\* load_existing_profiles; read_ok = FALSE when get_all_values raises
load_existing_profiles(values, read_ok) ==
    IF read_ok THEN LoadLoop(values, 2, EmptyMap) ELSE EmptyMap

(***************************************************************************)
(* SheetsManager.write_profile: the pure parts.                            *)
(***************************************************************************)
\* mutant: the plain columns are written without clean_data
CellValueRaw(col, data) ==
    CASE col = "IMAGE"        -> ""
      [] col = "PROFILE LINK" -> IF data[col] # "" THEN "Profile" ELSE ""
      [] col = "LAST POST"    -> IF data[col] # "" THEN "Post" ELSE ""
      [] OTHER                -> data[col]

\* one cell of row_values
CellValue(col, data) ==
    CASE col = "IMAGE"        -> ""
      [] col = "PROFILE LINK" -> IF data[col] # "" THEN "Profile" ELSE ""
      [] col = "LAST POST"    -> IF data[col] # "" THEN "Post" ELSE ""
      [] OTHER                -> clean_data(data[col])

\* row_values, in COLUMN_ORDER
RowValues(data) == [ i \in 1..NCols |-> CellValue(COLUMN_ORDER[i], data) ]

\* before_snapshot of an index entry
BeforeSnapshot(existing) ==
    [ c \in Cols |-> IF COLUMN_TO_INDEX(c) < Len(existing.data)
                     THEN existing.data[COLUMN_TO_INDEX(c) + 1] ELSE "" ]

\* mutant: old_val is compared with the cell of the next column
ChangedFieldsShifted(before, row_values) ==
    LET Differs(c) == before[c] # row_values[((COLUMN_TO_INDEX(c) + 1) % NCols) + 1]
    IN  SelectSeq(COLUMN_ORDER, Differs)

\* changed_fields: the names of changed_indices, in column order
ChangedFields(before, row_values) ==
    LET Differs(c) == before[c] # row_values[COLUMN_TO_INDEX(c) + 1]
    IN  SelectSeq(COLUMN_ORDER, Differs)

RECURSIVE ColumnLetterLoop(_, _)
\* the while loop of column_letter, letters = result so far
ColumnLetterLoop(col_idx, letters) ==
    IF col_idx > 0
    THEN ColumnLetterLoop((col_idx - 1) \div 26, UpperChars[((col_idx - 1) % 26) + 1] \o letters)
    ELSE letters

\* column_letter(col_idx): the letters of the column of 0-based index col_idx
column_letter(col_idx) == ColumnLetterLoop(col_idx + 1, "")

\* line 357: the range_name of the overwrite of row row_num
cell_range(row_num) == "A" \o ToString(row_num) \o ":" \o column_letter(NCols) \o ToString(row_num)

\* lines 239-240: the range_name of the formula write of a link column
link_cell(col_name, row_idx) == column_letter(COLUMN_TO_INDEX(col_name)) \o ToString(row_idx)

\* the formula text apply_link_formulas writes for a link column
LinkFormula(col_name, value) ==
    CASE col_name = "IMAGE"     -> "=IMAGE(\"" \o value \o "\", 4, 50, 50)"
      [] col_name = "LAST POST" -> "=HYPERLINK(\"" \o value \o "\", \"Post\")"
      [] OTHER                  -> "=HYPERLINK(\"" \o value \o "\", \"Profile\")"

\* what get_all_values shows for a cell holding that formula
Rendered(col_name) ==
    CASE col_name = "IMAGE"     -> ""
      [] col_name = "LAST POST" -> "Post"
      [] OTHER                  -> "Profile"

\* the row of the Logs sheet log_change appends ("ts": the wall clock is not modelled)
LogRow(nickname, change_type, changed_fields, before, after) ==
    << "ts", nickname, change_type,
       IF Len(changed_fields) > 0 THEN Join(", ", changed_fields) ELSE "-",
       Truncate500(JsonDumps(before, IF before = EmptyMap THEN << >> ELSE COLUMN_ORDER)),
       Truncate500(JsonDumps(after, DataKeyOrder)) >>

(***************************************************************************)
(* The remote worksheets' operations.                                      *)
(***************************************************************************)
\* worksheet.append_row(values) on the Profiles sheet
AppendRow(sheet, values) == Append(sheet, PlainRow(values))

\* worksheet.update(values=[values], range_name="A<row>:..<row>")
UpdateRow(sheet, row, values) == [ sheet EXCEPT ![row] = PlainRow(values) ]

\* worksheet.update(values=[[formula]], range_name=<col letter><row>, USER_ENTERED)
UpdateCell(sheet, row, col_name, formula) ==
    [ sheet EXCEPT ![row] = [ vals |-> [ @.vals EXCEPT ![COLUMN_TO_INDEX(col_name) + 1] = Rendered(col_name) ],
                              fx   |-> [ @.fx EXCEPT ![col_name] = formula ] ] ]

(***************************************************************************)
(* Initial state: the spreadsheet as an earlier run left it (fresh, or     *)
(* holding one profile row written by the program), no manager yet.        *)
(***************************************************************************)
TagsSheetValues == << << "vip", "new" >>, << "Sam", "sam" >> >>

\* the row an earlier run wrote for sam
EarlierRecord == Rec("sam", "Lahore", "", "", "")

EarlierRow ==
    LET data == [ EarlierRecord EXCEPT !["TAGS"] = "vip, new" ]
    IN  UpdateCell(<< PlainRow(RowValues(data)) >>, 1, "PROFILE LINK",
                   LinkFormula("PROFILE LINK", data["PROFILE LINK"]))[1]

InitialProfiles == { << >>, << PlainRow(COLUMN_ORDER), EarlierRow >> }

NoCall ==
    [ kind |-> "none", record |-> EmptyMap, data |-> EmptyMap, nickname |-> "", row_values |-> << >>,
      row_num |-> 0, before |-> EmptyMap, changed |-> << >>, links |-> {},
      next |-> "" ]

NoArg == [ row |-> 0, col |-> "", values |-> << >>, range_name |-> "" ]

NoFrame == [ func |-> "", arg |-> NoArg, ret |-> "" ]

\* the retry loop before its first iteration: attempt = the loop variable,
\* calls = invocations of func so far, delay = tenths of a second slept so far,
\* trace = the outcomes met so far
NoLoop ==
    [ attempt |-> 0, calls |-> 0, delay |-> 0, trace |-> << >>,
      returned |-> FALSE, ok |-> FALSE ]

NoResult == [ status |-> "none", changed_fields |-> << >>, error |-> "" ]

\* a finished call: its argument, what it returned ("raised": it ended with an
\* exception), its safe_update calls, the Logs rows before it, and whether
\* a later run's setup() has reloaded the index since
NoPrev == [ status |-> "none", record |-> EmptyMap, ops |-> << >>, nlogs |-> 0, reloaded |-> FALSE ]

NoPre == [ index |-> EmptyMap, profiles |-> << >>, logs |-> << >>, prev |-> NoPrev ]

\* the header setup() gives an empty Target sheet
TARGET_HEADERS == << "Nickname", "Status", "Remarks", "Source" >>

\* no helper call is followed
NoHelper == [ func |-> "", arg |-> "", now |-> << 0, 0 >>, ret |-> "", returned |-> FALSE ]

\* main() not started: no targets, counters at zero
NoRun ==
    [ phase |-> "none", targets |-> << >>, i |-> 0, profile |-> EmptyMap, scrapes |-> 0,
      success |-> 0, failed |-> 0, new |-> 0, updated |-> 0, unchanged |-> 0,
      load_ok |-> TRUE, runs |-> 0, exit |-> 0, dash0 |-> << >>, order |-> << >>, ended |-> "" ]

\* no run of main() is modelled: write_profile is called directly
NoMain ==
    /\ run = NoRun
    /\ target_sheet = << >>
    /\ dashboard = << >>

Init ==
    /\ NoMain
    /\ profiles \in InitialProfiles
    /\ logs = << LOG_HEADERS >>
    /\ tags_sheet = TagsSheetValues
    /\ existing_profiles = EmptyMap
    /\ tags_mapping = EmptyMap
    /\ pc = "start"
    /\ wp = NoCall
    /\ su = NoFrame
    /\ loop = NoLoop
    /\ result = NoResult
    /\ ops = << >>
    /\ pre = NoPre
    /\ prev = NoPrev
    /\ ncalls = 0
    /\ failedOps = 0
    /\ helper = NoHelper

(***************************************************************************)
(* SheetsManager() + setup(): a run's manager is built and loaded.         *)
(* read_ok = FALSE: get_all_values raises inside load_existing_profiles.   *)
(***************************************************************************)
Setup(read_ok) ==
    /\ pc \in { "start", "ready" }
    /\ run.phase \in { "none", "setup" }
    /\ run' = IF run.phase = "setup" THEN [ run EXCEPT !.phase = "targets", !.load_ok = read_ok ] ELSE run
    /\ target_sheet' = IF run.phase = "setup" /\ Len(target_sheet) = 0
                       THEN << TARGET_HEADERS >> ELSE target_sheet
    /\ UNCHANGED dashboard
    /\ read_ok \/ failedOps < MaxFailedOps
    /\ LET sheet == IF Len(profiles) = 0 THEN AppendRow(profiles, COLUMN_ORDER) ELSE profiles
       IN  /\ profiles' = sheet
           /\ existing_profiles' = load_existing_profiles(ProfilesValues(sheet), read_ok)
    /\ tags_mapping' = load_tags_mapping(tags_sheet)
    /\ failedOps' = IF read_ok THEN failedOps ELSE failedOps + 1
    /\ pc' = "ready"
    /\ wp' = NoCall
    /\ su' = NoFrame
    /\ result' = NoResult
    /\ ops' = << >>
    /\ pre' = NoPre
    /\ prev' = IF prev.status = "none" THEN prev ELSE [ prev EXCEPT !.reloaded = TRUE ]
    /\ UNCHANGED << logs, tags_sheet, loop, ncalls >>
    /\ UNCHANGED helper

(***************************************************************************)
(* write_profile(data), up to its first safe_update call.                  *)
(***************************************************************************)
\* a safe_update call begins: func(arg), to resume the caller at ret
Frame(func, arg, ret) == [ func |-> func, arg |-> arg, ret |-> ret ]

\* the link columns apply_link_formulas does not skip
LinksOf(data) == { c \in LINK_COLUMNS : data[c] # "" }

\* mutant: the nickname is taken without .strip()
NicknameUnstripped(record) == record["NICK NAME"]

\* line 312: nickname = data.get("NICK NAME", "").strip()
Nickname(record) == Strip(record["NICK NAME"])

WriteProfile(record) ==
    /\ pc = "ready"
    /\ run.phase \in { "none", "write" }
    /\ run.phase = "write" => record = run.profile
    /\ run' = IF run.phase = "write"
              THEN [ run EXCEPT !.phase = "written", !.order = Append(@, Nickname(record)) ]
              ELSE run
    /\ UNCHANGED << target_sheet, dashboard >>
    /\ ncalls < MaxCalls
    /\ ncalls' = IF Nickname(record) = "" THEN ncalls ELSE ncalls + 1
    /\ ops' = << >>
    /\ pre' = [ index |-> existing_profiles, profiles |-> profiles, logs |-> logs, prev |-> prev ]
    /\ UNCHANGED prev
    /\ LET nickname == Nickname(record)
           data == [ record EXCEPT !["TAGS"] = get_tags_for_nickname(tags_mapping, nickname) ]
           row_values == RowValues(data)
           nickname_lower == Lower(nickname)
           exists == nickname_lower \in DOMAIN existing_profiles
           existing == existing_profiles[nickname_lower]
           before == BeforeSnapshot(existing)
           changed == ChangedFields(before, row_values)
           call == [ NoCall EXCEPT !.record = record, !.data = data, !.nickname = nickname,
                                   !.row_values = row_values, !.links = LinksOf(data) ]
       IN  IF nickname = ""
           THEN /\ wp' = [ NoCall EXCEPT !.kind = "error", !.record = record, !.data = record ]
                /\ result' = [ status |-> "error", changed_fields |-> << >>, error |-> "Missing nickname" ]
                /\ pc' = "ready"
                /\ su' = NoFrame
           ELSE /\ result' = NoResult
                /\ pc' = "su"
                /\ IF exists /\ Len(changed) = 0
                   THEN /\ wp' = [ call EXCEPT !.kind = "unchanged", !.row_num = existing.row,
                                               !.before = before ]
                        /\ su' = Frame("log", [ NoArg EXCEPT !.values = LogRow(nickname, "UNCHANGED", << >>, before, data) ],
                                       "wp_finish")
                   ELSE IF exists
                   THEN /\ wp' = [ call EXCEPT !.kind = "updated", !.row_num = existing.row,
                                               !.before = before, !.changed = changed ]
                        /\ su' = Frame("update", [ NoArg EXCEPT !.row = existing.row, !.values = row_values,
                                                                !.range_name = cell_range(existing.row) ],
                                       "wp_formulas")
                   ELSE /\ wp' = [ call EXCEPT !.kind = "new" ]
                        /\ su' = Frame("append_row", [ NoArg EXCEPT !.values = row_values ], "wp_new_row")
    /\ UNCHANGED << remoteVars, existing_profiles, tags_mapping, loop, failedOps >>
    /\ UNCHANGED helper

(***************************************************************************)
(* safe_update(func, *args, max_retries=3).                                *)
(* The remote answers each invocation of func with an outcome: "ok" (func  *)
(* returns), "throttle" (func raises an error whose text holds '429' or    *)
(* 'quota'), "error" (func raises anything else).  A pattern is the        *)
(* sequence of outcomes the remote gives to one safe_update call.          *)
(***************************************************************************)
Outcomes == { "ok", "throttle", "error" }

Failures == Outcomes \ { "ok" }

\* the outcome sequences one call can meet: failures, then "ok" or the last attempt
Patterns ==
    { p \in UNION { [ 1..n -> Outcomes ] : n \in 1..max_retries } :
        /\ \A i \in 1..(Len(p) - 1) : p[i] \in Failures
        /\ p[Len(p)] = "ok" \/ Len(p) = max_retries }

\* mutant: the log row is inserted right below the header
AppendLogOnTop(sheet, values) == << sheet[1], values >> \o SubSeq(sheet, 2, Len(sheet))

\* log_change, line 272: worksheet.append_row(values) on the Logs sheet
AppendLog(sheet, values) == Append(sheet, values)

\* mutant: the row of log_change is appended to the Profiles sheet as well
AppliedWithLog(func, arg, sheet) ==
    CASE func = "append_row" -> AppendRow(sheet, arg.values)
      [] func = "update"     -> UpdateRow(sheet, arg.row, arg.values)
      [] func = "formula"    -> UpdateCell(sheet, arg.row, arg.col, arg.values[1])
      [] OTHER               -> AppendRow(sheet, arg.values)

\* the effect of the wrapped remote operation on the Profiles sheet when it
\* succeeds
Applied(func, arg, sheet) ==
    CASE func = "append_row" -> AppendRow(sheet, arg.values)
      [] func = "update"     -> UpdateRow(sheet, arg.row, arg.values)
      [] func = "formula"    -> UpdateCell(sheet, arg.row, arg.col, arg.values[1])
      [] OTHER               -> sheet

\* mutant: the throttling branch does not sleep
BackoffOfNone(outcome, attempt) == 0

\* time.sleep of the except branch: only the throttling branch sleeps
BackoffOf(outcome, attempt) == IF outcome = "throttle" THEN wait_time(attempt) ELSE 0

\* mutant: a failure that is not throttling ends the call at once
GivesUpOnError(outcome, attempt) ==
    IF outcome = "throttle" THEN attempt + 1 >= max_retries ELSE TRUE

\* TRUE when a failed attempt ends the call (return None): the loop's range is
\* exhausted after a throttled attempt, or the else branch's test holds
GivesUp(outcome, attempt) ==
    IF outcome = "throttle" THEN attempt + 1 >= max_retries ELSE attempt = max_retries - 1

RECURSIVE SafeUpdateLoop(_, _, _)
\* the for loop, from iteration `attempt` on, `delay` tenths of a second slept so far:
\* [ok: func returned (its result is returned) or None, calls: invocations of
\*  func, delay: total time slept]
SafeUpdateLoop(pattern, attempt, delay) ==
    LET outcome == pattern[attempt + 1]
    IN  IF outcome = "ok"
        THEN [ ok |-> TRUE, calls |-> attempt + 1, delay |-> delay + SHEET_WRITE_DELAY ]
        ELSE IF GivesUp(outcome, attempt)
        THEN [ ok |-> FALSE, calls |-> attempt + 1, delay |-> delay + BackoffOf(outcome, attempt) ]
        ELSE SafeUpdateLoop(pattern, attempt + 1, delay + BackoffOf(outcome, attempt))

\* one whole safe_update call under a pattern
SafeUpdateRun(pattern) == SafeUpdateLoop(pattern, 0, 0)

\* what a safe_update call can return: TRUE func's result, FALSE None
SafeUpdateReturns == { SafeUpdateRun(pattern).ok : pattern \in Patterns }

\* one safe_update call of write_profile, from call to return
SafeUpdate(ok) ==
    /\ pc = "su"
    /\ ok \/ failedOps < MaxFailedOps
    /\ failedOps' = IF ok THEN failedOps ELSE failedOps + 1
    /\ profiles' = IF ok THEN Applied(su.func, su.arg, profiles) ELSE profiles
    /\ logs' = IF ok /\ su.func = "log" THEN AppendLog(logs, su.arg.values) ELSE logs
    /\ ops' = Append(ops, [ func |-> su.func, arg |-> su.arg, ok |-> ok ])
    /\ pc' = su.ret
    /\ su' = NoFrame
    /\ UNCHANGED << tags_sheet, existing_profiles, tags_mapping, wp, loop, result, pre, prev, ncalls >>
    /\ UNCHANGED runVars
    /\ UNCHANGED helper

(***************************************************************************)
(* write_profile, resumed after each safe_update call.                     *)
(***************************************************************************)
\* the record of the call that is ending with `status`
Finished(status) ==
    [ status |-> status, record |-> wp.record, ops |-> ops, nlogs |-> Len(pre.logs), reloaded |-> FALSE ]

\* CASE 2, line 377: new_row = len(get_all_values()); read_ok = FALSE when the
\* read raises, which ends write_profile with the exception
NewRow(read_ok) ==
    /\ pc = "wp_new_row"
    /\ IF read_ok
       THEN /\ wp' = [ wp EXCEPT !.row_num = Len(ProfilesValues(profiles)) ]
            /\ pc' = "wp_formulas"
            /\ UNCHANGED << result, prev, failedOps >>
       ELSE /\ failedOps < MaxFailedOps
            /\ failedOps' = failedOps + 1
            /\ result' = [ status |-> "raised", changed_fields |-> << >>, error |-> "" ]
            /\ prev' = Finished("raised")
            /\ pc' = "ready"
            /\ UNCHANGED wp
    /\ UNCHANGED << remoteVars, existing_profiles, tags_mapping, su, loop, ops, pre, ncalls >>
    /\ UNCHANGED runVars
    /\ UNCHANGED helper

\* apply_link_formulas: the next link column that has a value (LINK_COLUMNS is a
\* set: its iteration order is not fixed)
ApplyLinkFormula(col_name) ==
    /\ pc = "wp_formulas"
    /\ col_name \in wp.links
    /\ wp' = [ wp EXCEPT !.links = @ \ { col_name } ]
    /\ su' = Frame("formula",
                   [ row |-> wp.row_num, col |-> col_name,
                     values |-> << LinkFormula(col_name, wp.data[col_name]) >>,
                     range_name |-> link_cell(col_name, wp.row_num) ],
                   "wp_formulas")
    /\ pc' = "su"
    /\ UNCHANGED << remoteVars, existing_profiles, tags_mapping, loop, result, ops, pre, prev, ncalls, failedOps >>
    /\ UNCHANGED runVars
    /\ UNCHANGED helper

\* CASE 1, lines 366-367: changed_fields and log_change(UPDATED)
LogUpdated ==
    /\ pc = "wp_formulas"
    /\ wp.links = {}
    /\ wp.kind = "updated"
    /\ su' = Frame("log", [ NoArg EXCEPT !.values = LogRow(wp.nickname, "UPDATED", wp.changed, wp.before, wp.data) ],
                   "wp_finish")
    /\ pc' = "su"
    /\ UNCHANGED << remoteVars, existing_profiles, tags_mapping, wp, loop, result, ops, pre, prev, ncalls, failedOps >>
    /\ UNCHANGED runVars
    /\ UNCHANGED helper

\* the index entry lines 369 and 381 store
IndexEntry(row, row_values) == [ row |-> row, data |-> row_values ]

\* CASE 2, lines 381-384: the index entry, then log_change(NEW)
IndexAndLogNew ==
    /\ pc = "wp_formulas"
    /\ wp.links = {}
    /\ wp.kind = "new"
    /\ existing_profiles' = Put(existing_profiles, Lower(wp.nickname), IndexEntry(wp.row_num, wp.row_values))
    /\ wp' = [ wp EXCEPT !.changed = COLUMN_ORDER ]
    /\ su' = Frame("log", [ NoArg EXCEPT !.values = LogRow(wp.nickname, "NEW", COLUMN_ORDER, EmptyMap, wp.data) ],
                   "wp_finish")
    /\ pc' = "su"
    /\ UNCHANGED << remoteVars, tags_mapping, loop, result, ops, pre, prev, ncalls, failedOps >>
    /\ UNCHANGED runVars
    /\ UNCHANGED helper

\* the return statements of lines 355, 369-371 and 386
Finish ==
    /\ pc = "wp_finish"
    /\ existing_profiles' =
          IF wp.kind = "updated"
          THEN Put(existing_profiles, Lower(wp.nickname), IndexEntry(wp.row_num, wp.row_values))
          ELSE existing_profiles
    /\ result' = [ status |-> wp.kind, changed_fields |-> wp.changed, error |-> "" ]
    /\ prev' = Finished(wp.kind)
    /\ pc' = "ready"
    /\ UNCHANGED << remoteVars, tags_mapping, wp, su, loop, ops, pre, ncalls, failedOps >>
    /\ UNCHANGED runVars
    /\ UNCHANGED helper

Next ==
    \/ \E read_ok \in BOOLEAN : Setup(read_ok)
    \/ \E record \in Records : WriteProfile(record)
    \/ \E ok \in SafeUpdateReturns : SafeUpdate(ok)
    \/ \E read_ok \in BOOLEAN : NewRow(read_ok)
    \/ \E col_name \in LINK_COLUMNS : ApplyLinkFormula(col_name)
    \/ LogUpdated
    \/ IndexAndLogNew
    \/ Finish

Spec == Init /\ [][Next]_vars

(***************************************************************************)
(* safe_update followed attempt by attempt: one call of the wrapper on a   *)
(* remote operation of write_profile, every outcome pattern allowed.       *)
(***************************************************************************)
\* one iteration of the for loop: func is invoked and meets `outcome`
SafeUpdateAttempt(outcome) ==
    /\ pc = "su_loop"
    /\ loop.attempt < max_retries
    /\ LET attempt == loop.attempt
           tried == [ loop EXCEPT !.calls = @ + 1, !.trace = Append(@, outcome) ]
       IN  IF outcome = "ok"
           THEN /\ profiles' = Applied(su.func, su.arg, profiles)
                /\ logs' = IF su.func = "log" THEN Append(logs, su.arg.values) ELSE logs
                /\ loop' = [ tried EXCEPT !.delay = @ + SHEET_WRITE_DELAY,
                                          !.returned = TRUE, !.ok = TRUE ]
                /\ pc' = "su_done"
           ELSE /\ UNCHANGED << profiles, logs >>
                /\ IF GivesUp(outcome, attempt)
                   THEN /\ loop' = [ tried EXCEPT !.delay = @ + BackoffOf(outcome, attempt),
                                                  !.returned = TRUE ]
                        /\ pc' = "su_done"
                   ELSE /\ loop' = [ tried EXCEPT !.delay = @ + BackoffOf(outcome, attempt),
                                                  !.attempt = @ + 1 ]
                        /\ pc' = "su_loop"
    /\ UNCHANGED << tags_sheet, existing_profiles, tags_mapping, wp, su, result, ops, pre, prev,
                    ncalls, failedOps >>
    /\ UNCHANGED runVars
    /\ UNCHANGED helper

\* the safe_update calls write_profile makes for a record, on the sheet an
\* earlier run left
FramesOf(record) ==
    LET data == [ record EXCEPT !["TAGS"] = get_tags_for_nickname(load_tags_mapping(TagsSheetValues),
                                                                   Strip(record["NICK NAME"])) ]
    IN  { Frame("append_row", [ NoArg EXCEPT !.values = RowValues(data) ], ""),
          Frame("update", [ NoArg EXCEPT !.row = 2, !.values = RowValues(data), !.range_name = cell_range(2) ], ""),
          Frame("log", [ NoArg EXCEPT !.values = LogRow(Strip(record["NICK NAME"]), "NEW", COLUMN_ORDER,
                                                        EmptyMap, data) ], "") }
        \cup { Frame("formula", [ row |-> 2, col |-> c, values |-> << LinkFormula(c, data[c]) >>,
                                  range_name |-> link_cell(c, 2) ], "")
               : c \in LinksOf(data) }

InitSafeUpdate ==
    /\ NoMain
    /\ profiles = << PlainRow(COLUMN_ORDER), EarlierRow >>
    /\ logs = << LOG_HEADERS >>
    /\ tags_sheet = TagsSheetValues
    /\ existing_profiles = EmptyMap
    /\ tags_mapping = EmptyMap
    /\ pc = "su_loop"
    /\ wp = NoCall
    /\ su \in UNION { FramesOf(record) : record \in { r \in Records : Strip(r["NICK NAME"]) # "" } }
    /\ loop = NoLoop
    /\ result = NoResult
    /\ ops = << >>
    /\ pre = NoPre
    /\ prev = NoPrev
    /\ ncalls = 0
    /\ failedOps = 0
    /\ helper = NoHelper

NextSafeUpdate == \E outcome \in Outcomes : SafeUpdateAttempt(outcome)

SpecSafeUpdate == InitSafeUpdate /\ [][NextSafeUpdate]_vars

\* the for loop is sequential code: an iteration that can run does run
SpecSafeUpdateFair == SpecSafeUpdate /\ WF_vars(NextSafeUpdate)

(***************************************************************************)
(* main() of target_scraper.py: a run.  The browser is reduced to what      *)
(* scrape_profile returns; the status texts are written without their       *)
(* emoji prefix.                                                            *)
(***************************************************************************)
\* expected_headers of update_dashboard
DASHBOARD_HEADERS ==
    << "Run#", "Timestamp", "Profiles", "Success", "Failed", "New", "Updated", "Unchanged" >>

\* MAX_PROFILES_PER_RUN, default '0': no limit
MAX_PROFILES_PER_RUN == 0

\* a cell of a Target row, "" when the row is shorter
TargetCell(row, idx) == IF idx <= Len(row) THEN Strip(row[idx]) ELSE ""

RECURSIVE TargetsLoop(_, _, _)
\* get_target_nicknames: the loop over get_all_values()[1:], idx from 2 (the
\* second accepted status text, "pending" followed by an emoji, is in no cell
\* of the modelled sheets)
TargetsLoop(values, idx, targets) ==
    IF idx > Len(values) THEN targets
    ELSE LET row == values[idx]
             nickname == TargetCell(row, 1)
             status == TargetCell(row, 2)
             source == IF Len(row) > 3 THEN Strip(row[4]) ELSE "Manual"
         IN  IF Len(row) > 0 /\ nickname # "" /\ Lower(status) = "pending"
             THEN TargetsLoop(values, idx + 1,
                              Append(targets, [ nickname |-> nickname, row |-> idx, source |-> source ]))
             ELSE TargetsLoop(values, idx + 1, targets)

\* get_target_nicknames; read_ok = FALSE: get_all_values raises, [] is returned
get_target_nicknames(values, read_ok) ==
    IF ~read_ok THEN << >>
    ELSE LET targets == TargetsLoop(values, 2, << >>)
         IN  IF MAX_PROFILES_PER_RUN > 0 /\ Len(targets) > MAX_PROFILES_PER_RUN
             THEN SubSeq(targets, 1, MAX_PROFILES_PER_RUN) ELSE targets

\* a Target row with cell idx (1-based) set, the row padded as the sheet pads it
SetCell(row, idx, value) ==
    [ j \in 1..(IF Len(row) > idx THEN Len(row) ELSE idx) |->
        IF j = idx THEN value ELSE IF j <= Len(row) THEN row[j] ELSE "" ]

\* update_target_status(row_num, status, remarks): two safe_update calls, on
\* B<row> and C<row>; ok1, ok2: what each returned
update_target_status(sheet, row_num, status, remarks, ok1, ok2) ==
    LET one == IF ok1 THEN [ sheet EXCEPT ![row_num] = SetCell(@, 2, status) ] ELSE sheet
    IN  IF ok2 THEN [ one EXCEPT ![row_num] = SetCell(@, 3, remarks) ] ELSE one

\* the number of failed operations among the given results
Fails(oks) == Cardinality({ j \in 1..Len(oks) : ~oks[j] })

\* remark_detail of lines 97-108 (HIGHLIGHT_EXCLUDE_COLUMNS filtered out, five names at most)
HIGHLIGHT_EXCLUDE_COLUMNS ==
    { "IMAGE", "LAST POST", "JOINED", "PROFILE LINK", "SOURCE", "DATETIME SCRAP" }

RemarkDetail(write_result) ==
    LET NotExcluded(c) == c \notin HIGHLIGHT_EXCLUDE_COLUMNS
        cleaned_summary == SelectSeq(write_result.changed_fields, NotExcluded)
    IN  CASE write_result.status = "new" -> "New target profile added"
          [] write_result.status = "updated" ->
                IF Len(cleaned_summary) = 0 THEN "Updated (no key changes)"
                ELSE IF Len(cleaned_summary) > 5
                     THEN "Updated: " \o Join(", ", Append(SubSeq(cleaned_summary, 1, 5), "..."))
                     ELSE "Updated: " \o Join(", ", cleaned_summary)
          [] OTHER -> "No data changes"

\* mutant: Profiles Processed counts the successes only
MetricsRowOfSuccesses(r) ==
    << ToString(1), "ts", ToString(r.success), ToString(r.success), ToString(r.failed),
       ToString(r.new), ToString(r.updated), ToString(r.unchanged) >>

\* the metrics dict of lines 156-166 as the row update_dashboard appends, the
\* cells as get_all_values shows them
MetricsRow(r) ==
    << ToString(1), "ts", ToString(Len(r.targets)), ToString(r.success), ToString(r.failed),
       ToString(r.new), ToString(r.updated), ToString(r.unchanged) >>

\* update_dashboard(metrics) on the Dashboard sheet; read_ok = FALSE: get_all_values
\* raises and the except branch ends the call; ok_clear, ok_header, ok_row: what
\* the safe_update calls of clear, append_row(header) and append_row(row) returned
update_dashboard(sheet, row_data, read_ok, ok_clear, ok_header, ok_row) ==
    IF ~read_ok THEN sheet
    ELSE LET mismatch == IF Len(sheet) = 0 THEN TRUE ELSE sheet[1] # DASHBOARD_HEADERS
             cleared == IF mismatch /\ ok_clear THEN << >> ELSE sheet
             headed == IF mismatch /\ ok_header THEN Append(cleared, DASHBOARD_HEADERS) ELSE cleared
         IN  IF ok_row THEN Append(headed, row_data) ELSE headed

\* runs of main() in one behaviour
MaxRuns == 1

\* what scrape_profile can return for a nickname (None: EmptyMap)
ScrapeResults(nickname) == { r \in Records : r["NICK NAME"] = nickname } \cup { EmptyMap }

\* lines 72-81: at most two scrape_profile calls, the browser restarted between them
ScrapeLoop(first, restart_ok, second) ==
    IF first # EmptyMap THEN [ profile |-> first, scrapes |-> 1 ]
    ELSE IF restart_ok THEN [ profile |-> second, scrapes |-> 2 ]
    ELSE [ profile |-> EmptyMap, scrapes |-> 1 ]

\* the target of the loop iteration in progress
Target == run.targets[run.i + 1]

\* the ways main() ends with sys.exit(1): lines 29, 35 and 41
FatalStages == { "browser", "login", "sheets" }

\* mutant: an exception caught at line 173 ends the process with status 1
ExitStatusOfErrors(ended) == IF ended \in FatalStages \cup { "exception" } THEN 1 ELSE 0

\* the exit status of the process, by the way main() ended: sys.exit(1) in the
\* three setup checks; a return, and the two except branches of lines 171-176
\* which return as well, give 0
ExitStatus(ended) == IF ended \in FatalStages THEN 1 ELSE 0

\* the run record of a run that has ended
Ended(r, ended) == [ r EXCEPT !.phase = "done", !.ended = ended, !.exit = ExitStatus(ended) ]

\* lines 26-41: setup_browser returns None, login_to_damadam or
\* SheetsManager.setup returns False: sys.exit(1)
FatalSetup(stage) ==
    /\ run.phase = "setup"
    /\ run' = Ended(run, stage)
    /\ UNCHANGED << profiles, logs, tags_sheet, existing_profiles, tags_mapping, pc, wp, su, loop,
                    result, ops, pre, prev, ncalls, failedOps, target_sheet, dashboard >>
    /\ UNCHANGED helper

\* KeyboardInterrupt inside the try block of main(): the except branch of line
\* 171 prints and main() returns; a write_profile call in progress is left
\* where it was. An interrupt is counted with the failed operations, so that
\* MaxFailedOps bounds the faults of a behaviour.
Interrupt ==
    /\ run.phase \in { "setup", "targets", "next", "scrape", "write", "written", "count" }
    /\ failedOps < MaxFailedOps
    /\ failedOps' = failedOps + 1
    /\ run' = Ended(run, "interrupt")
    /\ IF pc \in { "start", "ready" }
       THEN UNCHANGED << pc, su, result, prev >>
       ELSE /\ pc' = "ready"
            /\ su' = NoFrame
            /\ result' = [ status |-> "raised", changed_fields |-> << >>, error |-> "" ]
            /\ prev' = Finished("raised")
    /\ UNCHANGED << profiles, logs, tags_sheet, existing_profiles, tags_mapping, wp, loop,
                    ops, pre, ncalls, target_sheet, dashboard >>
    /\ UNCHANGED helper

\* main() is entered: browser and login are up, a SheetsManager is built
RunStart ==
    /\ run.phase \in { "idle", "done" }
    /\ run.runs < MaxRuns
    /\ pc \in { "start", "ready" }
    /\ run' = [ NoRun EXCEPT !.phase = "setup", !.runs = run.runs + 1, !.dash0 = dashboard,
                             !.order = run.order ]
    /\ UNCHANGED << profiles, logs, tags_sheet, existing_profiles, tags_mapping, pc, wp, su, loop,
                    result, ops, pre, prev, ncalls, failedOps, target_sheet, dashboard >>
    /\ UNCHANGED helper

\* lines 43-50: targets = sheets.get_target_nicknames(); return when there are none
GetTargets(read_ok) ==
    /\ run.phase = "targets"
    /\ read_ok \/ failedOps < MaxFailedOps
    /\ failedOps' = IF read_ok THEN failedOps ELSE failedOps + 1
    /\ LET targets == get_target_nicknames(target_sheet, read_ok)
       IN  run' = IF Len(targets) = 0 THEN Ended(run, "no_targets")
                  ELSE [ run EXCEPT !.targets = targets, !.phase = "next" ]
    /\ UNCHANGED << profiles, logs, tags_sheet, existing_profiles, tags_mapping, pc, wp, su, loop,
                    result, ops, pre, prev, ncalls, target_sheet, dashboard >>
    /\ UNCHANGED helper

\* lines 60-70: the next target's status cell is set to Processing
StartTarget(ok1, ok2) ==
    /\ run.phase = "next"
    /\ run.i < Len(run.targets)
    /\ failedOps + Fails(<< ok1, ok2 >>) <= MaxFailedOps
    /\ failedOps' = failedOps + Fails(<< ok1, ok2 >>)
    /\ target_sheet' = update_target_status(target_sheet, Target.row, "Processing", "Started", ok1, ok2)
    /\ run' = [ run EXCEPT !.phase = "scrape" ]
    /\ UNCHANGED << profiles, logs, tags_sheet, existing_profiles, tags_mapping, pc, wp, su, loop,
                    result, ops, pre, prev, ncalls, dashboard >>
    /\ UNCHANGED helper

\* lines 72-84: the scrape attempts; a profile gets its SOURCE
Scrape(first, restart_ok, second) ==
    /\ run.phase = "scrape"
    /\ first \in ScrapeResults(Target.nickname)
    /\ second \in ScrapeResults(Target.nickname)
    /\ first # EmptyMap => (restart_ok /\ second = EmptyMap)
    /\ ~restart_ok => second = EmptyMap
    /\ LET got == ScrapeLoop(first, restart_ok, second)
       IN  run' = [ run EXCEPT
                      !.profile = IF got.profile = EmptyMap THEN EmptyMap
                                  ELSE [ got.profile EXCEPT !["SOURCE"] = Target.source ],
                      !.scrapes = got.scrapes,
                      !.phase = IF got.profile = EmptyMap THEN "count" ELSE "write" ]
    /\ UNCHANGED << profiles, logs, tags_sheet, existing_profiles, tags_mapping, pc, wp, su, loop,
                    result, ops, pre, prev, ncalls, failedOps, target_sheet, dashboard >>
    /\ UNCHANGED helper


\* main(), lines 86-112: how the run counts a write_profile result
CountedAs(write_result) ==
    IF write_result.status \in { "new", "updated", "unchanged" } THEN "success" ELSE "failed"

\* lines 86-121: write_profile has returned; the result is counted and the
\* target's status cell gets Completed or Failed. An exception out of
\* write_profile reaches the except branch of line 173 and ends the run.
Count(ok1, ok2) ==
    /\ run.phase = "written"
    /\ pc = "ready"
    /\ result.status # "none"
    /\ IF result.status = "raised"
       THEN /\ ok1 /\ ok2
            /\ run' = Ended(run, "exception")
            /\ UNCHANGED << target_sheet, failedOps >>
       ELSE /\ failedOps + Fails(<< ok1, ok2 >>) <= MaxFailedOps
            /\ failedOps' = failedOps + Fails(<< ok1, ok2 >>)
            /\ IF CountedAs(result) = "success"
               THEN /\ run' = [ run EXCEPT !.success = @ + 1,
                                           ![result.status] = @ + 1,
                                           !.i = @ + 1,
                                           !.profile = EmptyMap,
                                           !.scrapes = 0,
                                           !.phase = "next" ]
                    /\ target_sheet' = update_target_status(target_sheet, Target.row, "Completed",
                                                            RemarkDetail(result), ok1, ok2)
               ELSE /\ run' = [ run EXCEPT !.failed = @ + 1, !.i = @ + 1, !.profile = EmptyMap,
                                           !.scrapes = 0, !.phase = "next" ]
                    /\ target_sheet' = update_target_status(target_sheet, Target.row, "Failed",
                                                            "Error: " \o result.error, ok1, ok2)
    /\ UNCHANGED << profiles, logs, tags_sheet, existing_profiles, tags_mapping, pc, wp, su, loop,
                    result, ops, pre, prev, ncalls, dashboard >>
    /\ UNCHANGED helper

\* lines 121-125: no profile was scraped
CountScrapeFailure(ok1, ok2) ==
    /\ run.phase = "count"
    /\ failedOps + Fails(<< ok1, ok2 >>) <= MaxFailedOps
    /\ failedOps' = failedOps + Fails(<< ok1, ok2 >>)
    /\ run' = [ run EXCEPT !.failed = @ + 1, !.i = @ + 1, !.scrapes = 0, !.phase = "next" ]
    /\ target_sheet' = update_target_status(target_sheet, Target.row, "Failed", "Scrape error", ok1, ok2)
    /\ UNCHANGED << profiles, logs, tags_sheet, existing_profiles, tags_mapping, pc, wp, su, loop,
                    result, ops, pre, prev, ncalls, dashboard >>
    /\ UNCHANGED helper

\* lines 156-167: the loop is over, the metrics go to the Dashboard sheet
UpdateDashboard(read_ok, ok_clear, ok_header, ok_row) ==
    /\ run.phase = "next"
    /\ run.i = Len(run.targets)
    /\ LET mismatch == IF Len(dashboard) = 0 THEN TRUE ELSE dashboard[1] # DASHBOARD_HEADERS
           fails == Fails(<< read_ok, ok_clear, ok_header, ok_row >>)
       IN  /\ ~read_ok => (ok_clear /\ ok_header /\ ok_row)
           /\ ~mismatch => (ok_clear /\ ok_header)
           /\ failedOps + fails <= MaxFailedOps
           /\ failedOps' = failedOps + fails
    /\ dashboard' = update_dashboard(dashboard, MetricsRow(run), read_ok, ok_clear, ok_header, ok_row)
    /\ run' = Ended(run, "finished")
    /\ UNCHANGED << profiles, logs, tags_sheet, existing_profiles, tags_mapping, pc, wp, su, loop,
                    result, ops, pre, prev, ncalls, target_sheet >>
    /\ UNCHANGED helper

\* after a run, when no row is pending, the operator adds a pending row to
\* the Target sheet
AddTarget(nickname) ==
    /\ run.phase = "done"
    /\ Len(target_sheet) > 0
    /\ Len(get_target_nicknames(target_sheet, TRUE)) = 0
    /\ target_sheet' = Append(target_sheet, << nickname, "Pending", "", "Target" >>)
    /\ UNCHANGED << profiles, logs, tags_sheet, existing_profiles, tags_mapping, pc, wp, su, loop,
                    result, ops, pre, prev, ncalls, failedOps, run, dashboard >>
    /\ UNCHANGED helper

\* the nicknames the operator asks for after a run
TargetNicknames == { "bob" }

\* the Target sheet before the first run
InitialTargets ==
    { << >>,
      << TARGET_HEADERS, << "sam", "Pending", "", "Target" >> >>,
      << TARGET_HEADERS, << "bob", "Completed", "done", "Target" >>, << " Sam ", "pending" >> >>,
      << TARGET_HEADERS, << "sam", "Pending", "", "Target" >>, << "bob", "Pending", "", "Target" >> >>,
      << TARGET_HEADERS, << "bob", "Pending", "", "Target" >>, << "sam", "Pending", "", "Target" >> >> }

\* the Dashboard sheet before the first run: never written, written by an
\* earlier run, or carrying another header
InitialDashboards ==
    { << >>,
      << DASHBOARD_HEADERS, << "1", "ts", "1", "1", "0", "1", "0", "0" >> >>,
      << << "Run", "Time" >>, << "7", "old" >> >> }

\* a Profiles sheet that earlier runs have written
PreloadedProfiles == << PlainRow(COLUMN_ORDER), EarlierRow >>

\* the profiles a run can hand to write_profile: a scraped record with the
\* SOURCE of its target
RunRecords == { [ r EXCEPT !["SOURCE"] = s ] : r \in Records, s \in { "Target", "Manual" } }

InitRun ==
    /\ run = [ NoRun EXCEPT !.phase = "idle" ]
    /\ target_sheet \in InitialTargets
    /\ dashboard \in InitialDashboards
    /\ profiles = PreloadedProfiles
    /\ logs = << LOG_HEADERS >>
    /\ tags_sheet = TagsSheetValues
    /\ existing_profiles = EmptyMap
    /\ tags_mapping = EmptyMap
    /\ pc = "start"
    /\ wp = NoCall
    /\ su = NoFrame
    /\ loop = NoLoop
    /\ result = NoResult
    /\ ops = << >>
    /\ pre = NoPre
    /\ prev = NoPrev
    /\ ncalls = 0
    /\ failedOps = 0
    /\ helper = NoHelper

NextRun ==
    \/ RunStart
    \/ \E stage \in FatalStages : FatalSetup(stage)
    \/ Interrupt
    \/ \E read_ok \in BOOLEAN : Setup(read_ok)
    \/ \E read_ok \in BOOLEAN : GetTargets(read_ok)
    \/ \E ok1, ok2 \in BOOLEAN : StartTarget(ok1, ok2)
    \/ \E first, second \in Records \cup { EmptyMap }, restart_ok \in BOOLEAN :
          Scrape(first, restart_ok, second)
    \/ \E record \in RunRecords : WriteProfile(record)
    \/ \E ok \in SafeUpdateReturns : SafeUpdate(ok)
    \/ \E read_ok \in BOOLEAN : NewRow(read_ok)
    \/ \E col_name \in LINK_COLUMNS : ApplyLinkFormula(col_name)
    \/ LogUpdated
    \/ IndexAndLogNew
    \/ Finish
    \/ \E ok1, ok2 \in BOOLEAN : Count(ok1, ok2)
    \/ \E ok1, ok2 \in BOOLEAN : CountScrapeFailure(ok1, ok2)
    \/ \E read_ok, ok_clear, ok_header, ok_row \in BOOLEAN :
          UpdateDashboard(read_ok, ok_clear, ok_header, ok_row)
    \/ \E nickname \in TargetNicknames : AddTarget(nickname)

SpecRun == InitRun /\ [][NextRun]_vars

(***************************************************************************)
(* setup() alone, on the Profiles sheets earlier runs may have left.        *)
(***************************************************************************)
\* rows of a stored Profiles sheet below the header
MaxLoadRows == 3

\* stored rows: identities in several spellings, empty and blank identity
\* cells, and a row of one cell
StoredRows ==
    { << "", "sam", "Lahore" >>, << "", " Sam ", "Karachi" >>, << "", "bob", "N/A" >>,
      << "", "", "Lahore" >>, << "", "  ", "Multan" >>, << "x" >> }

RECURSIVE SheetsOfLen(_)
\* the sequences of n stored rows
SheetsOfLen(n) ==
    IF n = 0 THEN { << >> }
    ELSE { Append(sheet, row) : sheet \in SheetsOfLen(n - 1), row \in StoredRows }

\* the header and up to MaxLoadRows stored rows
StoredSheets ==
    { << COLUMN_ORDER >> \o rows : rows \in UNION { SheetsOfLen(n) : n \in 0..MaxLoadRows } }

InitLoad ==
    /\ NoMain
    /\ profiles \in { [ k \in 1..Len(values) |-> PlainRow(values[k]) ] : values \in StoredSheets }
    /\ logs = << LOG_HEADERS >>
    /\ tags_sheet = TagsSheetValues
    /\ existing_profiles = EmptyMap
    /\ tags_mapping = EmptyMap
    /\ pc = "start"
    /\ wp = NoCall
    /\ su = NoFrame
    /\ loop = NoLoop
    /\ result = NoResult
    /\ ops = << >>
    /\ pre = NoPre
    /\ prev = NoPrev
    /\ ncalls = 0
    /\ failedOps = 0
    /\ helper = NoHelper

NextLoad == \E read_ok \in BOOLEAN : Setup(read_ok)

SpecLoad == InitLoad /\ [][NextLoad]_vars

(***************************************************************************)
(* write_profile on records whose NICK NAME is one of the phrases          *)
(* clean_data blanks.                                                      *)
(***************************************************************************)
SentinelRecords ==
    { Rec("none", "Lahore", "", "", ""),
      Rec("none", "Karachi", "", "", ""),
      Rec("N/A", "Lahore", "", "", ""),
      Rec(" null ", "Lahore", "i1", "", "") }

NextSentinel ==
    \/ \E read_ok \in BOOLEAN : Setup(read_ok)
    \/ \E record \in SentinelRecords : WriteProfile(record)
    \/ \E ok \in SafeUpdateReturns : SafeUpdate(ok)
    \/ \E read_ok \in BOOLEAN : NewRow(read_ok)
    \/ \E col_name \in LINK_COLUMNS : ApplyLinkFormula(col_name)
    \/ LogUpdated
    \/ IndexAndLogNew
    \/ Finish

SpecSentinel == Init /\ [][NextSentinel]_vars

(***************************************************************************)
(* core_scraper.py: convert_relative_date_to_absolute.  A datetime is a    *)
(* pair <<ordinal, second of the day>>, ordinal 1 being 1 January of year  *)
(* 1 (datetime.min), as date.toordinal() counts.                           *)
(***************************************************************************)
DaysInMonth == << 31, 28, 31, 30, 31, 30, 31, 31, 30, 31, 30, 31 >>

MonthAbbr == << "Jan", "Feb", "Mar", "Apr", "May", "Jun", "Jul", "Aug", "Sep", "Oct", "Nov", "Dec" >>

IsLeap(year) == year % 4 = 0 /\ (year % 100 # 0 \/ year % 400 = 0)

DaysIn(year, month) == IF month = 2 /\ IsLeap(year) THEN 29 ELSE DaysInMonth[month]

RECURSIVE DaysBeforeMonth(_, _)
DaysBeforeMonth(year, month) ==
    IF month = 1 THEN 0 ELSE DaysBeforeMonth(year, month - 1) + DaysIn(year, month - 1)

DaysBeforeYear(year) ==
    LET y == year - 1 IN y * 365 + (y \div 4) - (y \div 100) + (y \div 400)

\* date(year, month, day).toordinal()
Ordinal(year, month, day) == DaysBeforeYear(year) + DaysBeforeMonth(year, month) + day

\* date.fromordinal(n), for n >= 1: <<year, month, day>>
FromOrdinal(n) ==
    LET n0 == n - 1
        n400 == n0 \div 146097
        r400 == n0 % 146097
        n100 == r400 \div 36524
        r100 == r400 % 36524
        n4 == r100 \div 1461
        r4 == r100 % 1461
        n1 == r4 \div 365
        r1 == r4 % 365
        year == n400 * 400 + n100 * 100 + n4 * 4 + n1 + 1
    IN  IF n1 = 4 \/ n100 = 4 THEN << year - 1, 12, 31 >>
        ELSE LET month == CHOOSE m \in 1..12 :
                              /\ DaysBeforeMonth(year, m) <= r1
                              /\ r1 < DaysBeforeMonth(year, m) + DaysIn(year, m)
             IN  << year, month, r1 - DaysBeforeMonth(year, month) + 1 >>

\* "%02d" % n
TwoDigits(n) == IF n < 10 THEN "0" \o ToString(n) ELSE ToString(n)

\* datetime.strftime("%d-%b-%y")
strftime(datetime) ==
    LET ymd == FromOrdinal(datetime[1])
    IN  TwoDigits(ymd[3]) \o "-" \o MonthAbbr[ymd[2]] \o "-" \o TwoDigits(ymd[1] % 100)

SecondsPerDay == 86400

\* the largest number of days a timedelta holds
MaxDeltaDays == 999999999

\* timedelta(...), normalized to <<days, seconds>>, from a number of days and
\* a number of seconds
timedelta(days, seconds) == << days + (seconds \div SecondsPerDay), seconds % SecondsPerDay >>

\* an OverflowError raised by the date arithmetic
OverflowError == << >>

\* datetime - timedelta; OverflowError when the date falls before datetime.min
Minus(datetime, delta) ==
    LET day == datetime[1] - delta[1] - (IF datetime[2] < delta[2] THEN 1 ELSE 0)
        second == (datetime[2] - delta[2] + SecondsPerDay) % SecondsPerDay
    IN  IF day < 1 THEN OverflowError ELSE << day, second >>

Digits == << "0", "1", "2", "3", "4", "5", "6", "7", "8", "9" >>

IsDigit(c) == \E i \in 1..10 : Digits[i] = c

\* \w of the regular expressions
IsWordChar(c) ==
    \/ IsDigit(c)
    \/ c = "_"
    \/ \E i \in 1..Len(LowerChars) : LowerChars[i] = c \/ UpperChars[i] = c

\* text[i - 1], or "" outside the text
Ch(text, i) == IF i \in 1..Len(text) THEN CharAt(text, i) ELSE ""

\* text[i - 1:].startswith(word)
StartsWithAt(text, i, word) ==
    /\ i >= 1
    /\ i + Len(word) - 1 <= Len(text)
    /\ SubSeq(text, i, i + Len(word) - 1) = word

\* \b between the characters i - 1 and i
WordBoundary(text, i) == IsWordChar(Ch(text, i - 1)) # IsWordChar(Ch(text, i))

RECURSIVE SkipSpaces(_, _)
\* \s*: the first position from i on that holds no white space
SkipSpaces(text, i) == IF IsSpace(Ch(text, i)) THEN SkipSpaces(text, i + 1) ELSE i

RECURSIVE SkipDigits(_, _)
\* \d+: the first position from i on that holds no digit
SkipDigits(text, i) == IF IsDigit(Ch(text, i)) THEN SkipDigits(text, i + 1) ELSE i

RECURSIVE ParseInt(_, _)
\* int(digits), acc = the value of the digits read so far
ParseInt(digits, acc) ==
    IF digits = "" THEN acc
    ELSE ParseInt(SubSeq(digits, 2, Len(digits)),
                  10 * acc + (CHOOSE i \in 1..10 : Digits[i] = CharAt(digits, 1)) - 1)

RECURSIVE SubWord(_, _, _, _)
\* re.sub(r"\b<stem>s?\b", repl, text), from position i on
SubWord(text, i, stem, repl) ==
    IF i > Len(text) THEN ""
    ELSE IF WordBoundary(text, i) /\ StartsWithAt(text, i, stem \o "s")
            /\ WordBoundary(text, i + Len(stem) + 1)
         THEN repl \o SubWord(text, i + Len(stem) + 1, stem, repl)
    ELSE IF WordBoundary(text, i) /\ StartsWithAt(text, i, stem)
            /\ WordBoundary(text, i + Len(stem))
         THEN repl \o SubWord(text, i + Len(stem), stem, repl)
    ELSE CharAt(text, i) \o SubWord(text, i + 1, stem, repl)

\* abbrev_map, in the order of the dict
abbrev_map ==
    << << "sec", "seconds" >>, << "min", "minutes" >>, << "hr", "hours" >>,
       << "wk", "weeks" >>, << "yr", "years" >>, << "mon", "months" >> >>

RECURSIVE Normalize(_, _)
\* the loop over abbrev_map.items(), from entry k on
Normalize(text, k) ==
    IF k > Len(abbrev_map) THEN text
    ELSE Normalize(SubWord(text, 1, abbrev_map[k][1], abbrev_map[k][2]), k + 1)

\* the alternation (second|minute|hour|day|week|month|year)
Units == << "second", "minute", "hour", "day", "week", "month", "year" >>

\* the unit matched at position i, "" when none is
UnitAt(text, i) ==
    IF \E k \in 1..Len(Units) : StartsWithAt(text, i, Units[k])
    THEN Units[CHOOSE k \in 1..Len(Units) :
                   /\ StartsWithAt(text, i, Units[k])
                   /\ \A j \in 1..(k - 1) : ~StartsWithAt(text, i, Units[j])]
    ELSE ""

\* (unit)s?\s*ago matched at position i: the position after "ago", 0 when
\* there is no match
UnitAgoEnd(text, i) ==
    LET unit == UnitAt(text, i)
        after_unit == i + Len(unit)
        after_s == IF Ch(text, after_unit) = "s" THEN after_unit + 1 ELSE after_unit
        ago == SkipSpaces(text, after_s)
    IN  IF unit # "" /\ StartsWithAt(text, ago, "ago") THEN ago + 3 ELSE 0

\* \b(a|an)\s+(unit)s?\s*ago\b matched at position i
ArticleMatchAt(text, i) ==
    /\ WordBoundary(text, i)
    /\ \E article \in { "a", "an" } :
          /\ StartsWithAt(text, i, article)
          /\ IsSpace(Ch(text, i + Len(article)))
          /\ LET end == UnitAgoEnd(text, SkipSpaces(text, i + Len(article)))
             IN  end # 0 /\ WordBoundary(text, end)

\* (\d+)\s*(unit)s?\s*ago matched at position i
NumberMatchAt(text, i) ==
    /\ IsDigit(Ch(text, i))
    /\ UnitAgoEnd(text, SkipSpaces(text, SkipDigits(text, i))) # 0

\* re.search: the leftmost position where the pattern matches, 0 when none
SearchArticle(text) ==
    IF \E i \in 1..Len(text) : ArticleMatchAt(text, i)
    THEN CHOOSE i \in 1..Len(text) :
             ArticleMatchAt(text, i) /\ \A j \in 1..(i - 1) : ~ArticleMatchAt(text, j)
    ELSE 0

SearchNumber(text) ==
    IF \E i \in 1..Len(text) : NumberMatchAt(text, i)
    THEN CHOOSE i \in 1..Len(text) :
             NumberMatchAt(text, i) /\ \A j \in 1..(i - 1) : ~NumberMatchAt(text, j)
    ELSE 0

\* the article the match at position i begins with
ArticleAt(text, i) == IF IsSpace(Ch(text, i + 1)) THEN "a" ELSE "an"

\* mutant: a month counts 31 days
delta_map_31(unit, amount) ==
    IF amount * 365 > MaxDeltaDays THEN OverflowError
    ELSE CASE unit = "second" -> timedelta(0, amount)
           [] unit = "minute" -> timedelta(amount \div 1440, (amount % 1440) * 60)
           [] unit = "hour"   -> timedelta(amount \div 24, (amount % 24) * 3600)
           [] unit = "day"    -> timedelta(amount, 0)
           [] unit = "week"   -> timedelta(amount * 7, 0)
           [] unit = "month"  -> timedelta(amount * 31, 0)
           [] unit = "year"   -> timedelta(amount * 365, 0)

\* delta_map[unit], every timedelta of the dict being built first:
\* OverflowError when one of them is out of range
delta_map(unit, amount) ==
    IF amount * 365 > MaxDeltaDays THEN OverflowError
    ELSE CASE unit = "second" -> timedelta(0, amount)
           [] unit = "minute" -> timedelta(amount \div 1440, (amount % 1440) * 60)
           [] unit = "hour"   -> timedelta(amount \div 24, (amount % 24) * 3600)
           [] unit = "day"    -> timedelta(amount, 0)
           [] unit = "week"   -> timedelta(amount * 7, 0)
           [] unit = "month"  -> timedelta(amount * 30, 0)
           [] unit = "year"   -> timedelta(amount * 365, 0)

\* lines 164-186: the date `amount` units before now, or the text when the
\* arithmetic raises
Resolve(text, unit, amount, now) ==
    LET delta == delta_map(unit, amount)
        target_date == IF delta = OverflowError THEN delta ELSE Minus(now, delta)
    IN  IF target_date = OverflowError THEN text ELSE strftime(target_date)

\* convert_relative_date_to_absolute(relative_text), now = get_pkt_time()
convert_relative_date_to_absolute(relative_text, now) ==
    IF relative_text = "" THEN ""
    ELSE LET text == Normalize(Strip(Lower(relative_text)), 1)
             aa == SearchArticle(text)
             match == SearchNumber(text)
         IN  IF text \in { "just now", "now" } THEN strftime(now)
             ELSE IF text = "yesterday" THEN strftime(Minus(now, timedelta(1, 0)))
             ELSE IF aa # 0
                  THEN Resolve(text, UnitAt(text, SkipSpaces(text, aa + Len(ArticleAt(text, aa)))), 1, now)
             ELSE IF match = 0 THEN text
             ELSE Resolve(text, UnitAt(text, SkipSpaces(text, SkipDigits(text, match))),
                          ParseInt(SubSeq(text, match, SkipDigits(text, match) - 1), 0), now)

(***************************************************************************)
(* clean_data and convert_relative_date_to_absolute called on their own,   *)
(* on the texts a profile page can hold.                                   *)
(***************************************************************************)
\* the largest <n> of the texts "<n> <unit> ago"
MaxAmount == 3

\* mixed-case spellings of some of the phrases clean_data blanks
MixedCase == { "None", "NULL", "Null", "No City", "NOT SET", "No Age", "[error]", "[no post url]" }

\* values that clean_data keeps
OtherValues == { "Lahore", " Karachi ", "  ", "nonesuch", "N/A city", "25", "No" }

CleanInputs ==
    UNION { { phrase, Upper(phrase), Lower(phrase), " " \o phrase \o "  " } : phrase \in replace_with_blank }
    \cup MixedCase \cup OtherValues

\* the unit words of a relative time, and their abbreviations
UnitWords == { Units[k] : k \in 1..Len(Units) } \cup { abbrev_map[k][1] : k \in 1..Len(abbrev_map) }

\* "<n> <unit> ago", "<n><unit>s ago", ...
AmountTexts ==
    { ToString(n) \o sep \o unit \o plural \o " ago" :
        n \in 0..MaxAmount, sep \in { "", " " }, unit \in UnitWords, plural \in { "", "s" } }

SpecialTexts ==
    { "yesterday", "Yesterday", "just now", "Just Now", "now", "a week ago", "an hour ago",
      "A month ago", " 2 Months Ago ", "Joined 3 days ago" }

\* texts that hold no relative time
OtherTexts == { "Hello World", "Mon 5 Jan", "5 mins", " Karachi", "12 dayz ago", "12-Jan-24", "a while ago" }

RelativeTexts == AmountTexts \cup SpecialTexts \cup OtherTexts

\* the instants get_pkt_time() returns
Nows == { << Ordinal(2026, 11, 1), 1800 >>, << Ordinal(2024, 3, 1), 43200 >>, << Ordinal(2025, 1, 1), 0 >> }

HelperCalls ==
    { [ NoHelper EXCEPT !.func = "clean_data", !.arg = value ] : value \in CleanInputs }
    \cup { [ NoHelper EXCEPT !.func = "convert_relative_date_to_absolute", !.arg = text, !.now = now ]
           : text \in RelativeTexts, now \in Nows }

mainVars == << profiles, logs, tags_sheet, existing_profiles, tags_mapping, pc, wp, su, loop,
               result, ops, pre, prev, ncalls, failedOps, run, target_sheet, dashboard >>

InitHelpers ==
    /\ NoMain
    /\ profiles = << >>
    /\ logs = << LOG_HEADERS >>
    /\ tags_sheet = TagsSheetValues
    /\ existing_profiles = EmptyMap
    /\ tags_mapping = EmptyMap
    /\ pc = "start"
    /\ wp = NoCall
    /\ su = NoFrame
    /\ loop = NoLoop
    /\ result = NoResult
    /\ ops = << >>
    /\ pre = NoPre
    /\ prev = NoPrev
    /\ ncalls = 0
    /\ failedOps = 0
    /\ helper \in HelperCalls

CleanData ==
    /\ helper.func = "clean_data"
    /\ ~helper.returned
    /\ helper' = [ helper EXCEPT !.ret = clean_data(helper.arg), !.returned = TRUE ]
    /\ UNCHANGED mainVars

ConvertRelativeDate ==
    /\ helper.func = "convert_relative_date_to_absolute"
    /\ ~helper.returned
    /\ helper' = [ helper EXCEPT !.ret = convert_relative_date_to_absolute(helper.arg, helper.now),
                                 !.returned = TRUE ]
    /\ UNCHANGED mainVars

NextHelpers == CleanData \/ ConvertRelativeDate

SpecHelpers == InitHelpers /\ [][NextHelpers]_vars

(***************************************************************************)
(* A run of main() on a Target sheet where an earlier run, interrupted     *)
(* after line 70 or with its final status write rejected, left a row at    *)
(* Processing.  The scheduler starts the run and sequential code goes on:  *)
(* a step that can be taken is taken.                                      *)
(***************************************************************************)
LeftTargets ==
    { << TARGET_HEADERS, << "sam", "Processing", "Started", "Target" >> >>,
      << TARGET_HEADERS, << "bob", "Processing", "Started", "Target" >>,
         << "sam", "Pending", "", "Target" >> >> }

InitRerun ==
    /\ run = [ NoRun EXCEPT !.phase = "idle" ]
    /\ target_sheet \in LeftTargets
    /\ dashboard \in InitialDashboards
    /\ profiles = PreloadedProfiles
    /\ logs = << LOG_HEADERS >>
    /\ tags_sheet = TagsSheetValues
    /\ existing_profiles = EmptyMap
    /\ tags_mapping = EmptyMap
    /\ pc = "start"
    /\ wp = NoCall
    /\ su = NoFrame
    /\ loop = NoLoop
    /\ result = NoResult
    /\ ops = << >>
    /\ pre = NoPre
    /\ prev = NoPrev
    /\ ncalls = 0
    /\ failedOps = 0
    /\ helper = NoHelper

SpecRerun == InitRerun /\ [][NextRun]_vars /\ WF_vars(NextRun)

(***************************************************************************)
(* Properties.                                                             *)
(***************************************************************************)
\* a write_profile call has just returned a result dict
Returned == pc = "ready" /\ result.status \in { "error", "new", "updated", "unchanged" }

\* the safe_update calls of the current call that wrapped func
OpsOf(func) == { i \in 1..Len(ops) : ops[i].func = func }

\* the primary row write of the call that just returned failed (returned None)
PrimaryFailed == \E i \in OpsOf("append_row") \cup OpsOf("update") : ~ops[i].ok

\* the normalized identity of the call that just returned
Identity == Lower(Strip(wp.record["NICK NAME"]))

\* C1: write_profile returns the error "Missing nickname" if and only if the
\* record's NICK NAME is empty once stripped; for a non-empty identity the
\* returned status is new, updated or unchanged.
C1_MissingNicknameIff ==
    Returned =>
        /\ (result.status = "error" /\ result.error = "Missing nickname")
              <=> (Strip(wp.record["NICK NAME"]) = "")
        /\ Strip(wp.record["NICK NAME"]) # "" => result.status \in { "new", "updated", "unchanged" }
        /\ result.status = "error" => result.changed_fields = << >>

\* a record whose NICK NAME is blanks only was rejected
C1_Witness ==
    /\ Returned
    /\ result.status = "error"
    /\ wp.record["NICK NAME"] = "  "

SuccessivePair ==
    /\ Returned
    /\ result.status # "error"
    /\ pre.prev.status \in { "new", "updated", "unchanged" }
    /\ ~pre.prev.reloaded
    /\ Lower(Strip(pre.prev.record["NICK NAME"])) = Identity
    /\ \A i \in 1..Len(pre.prev.ops) : pre.prev.ops[i].ok
    /\ \A i \in 1..Len(ops) : ops[i].ok

\* the fields that differ between the two records
Differing == { c \in Cols : pre.prev.record[c] # wp.record[c] }

\* C3: change detection completeness: when exactly the fields S differ between
\* two successive reconciliations of one identity, the second returns updated
\* with changed_fields = S, and unchanged only when S is empty.
C3_ChangeDetectionComplete ==
    SuccessivePair =>
        /\ result.status = "unchanged" <=> Differing = {}
        /\ Differing # {} =>
              /\ result.status = "updated"
              /\ { result.changed_fields[i] : i \in 1..Len(result.changed_fields) } = Differing

\* C4: round trip: a record reconciled as new and reconciled again with the same
\* field values, in the same run or after a later run reloaded the index, is
\* classified unchanged.
C4_RoundTrip ==
    (Returned /\ result.status # "error" /\ pre.prev.status = "new" /\ pre.prev.record = wp.record)
        => result.status = "unchanged"

\* the record of the call that just returned equals, cell by cell as written,
\* the entry the index held for its identity when the call began
SnapshotEqual ==
    /\ Returned
    /\ result.status # "error"
    /\ Identity \in DOMAIN pre.index
    /\ \A i \in 1..NCols :
          wp.row_values[i] = IF i <= Len(pre.index[Identity].data) THEN pre.index[Identity].data[i] ELSE ""

\* the call that just returned repeats, in the same run, the record of the call
\* before it, which returned unchanged
Repeated ==
    /\ Returned
    /\ pre.prev.status = "unchanged"
    /\ pre.prev.record = wp.record
    /\ ~pre.prev.reloaded

\* C5: idempotence: a record equal to its snapshot entry is classified unchanged
\* with no changed field, leaves the index and the Profiles sheet as they were
\* and issues one UNCHANGED log append whose fields cell is "-"; reconciled
\* again it is unchanged again, its log append carries the same after payload,
\* and when the remote accepts both appends the Logs sheet has grown by exactly
\* these two rows, in order.
C5_Idempotent ==
    /\ SnapshotEqual =>
          /\ result.status = "unchanged"
          /\ result.changed_fields = << >>
          /\ existing_profiles = pre.index
          /\ profiles = pre.profiles
          /\ Len(ops) = 1
          /\ ops[1].func = "log"
          /\ ops[1].arg.values[3] = "UNCHANGED"
          /\ ops[1].arg.values[4] = "-"
          /\ logs = IF ops[1].ok THEN Append(pre.logs, ops[1].arg.values) ELSE pre.logs
    /\ Repeated =>
          /\ result.status = "unchanged"
          /\ SnapshotEqual
          /\ Len(pre.prev.ops) = 1
          /\ pre.prev.ops[1].arg.values[6] = ops[1].arg.values[6]
          /\ pre.prev.ops[1].arg.values[4] = ops[1].arg.values[4]
          /\ (pre.prev.ops[1].ok /\ ops[1].ok) =>
                logs = SubSeq(logs, 1, pre.prev.nlogs)
                         \o << pre.prev.ops[1].arg.values, ops[1].arg.values >>

\* the same record was found unchanged twice in a row and both log rows landed
C5_Witness ==
    /\ Repeated
    /\ result.status = "unchanged"
    /\ pre.prev.ops[1].ok
    /\ ops[1].ok
    /\ Len(logs) = pre.prev.nlogs + 2

\* the rows of the Profiles sheet whose identity cell normalizes to `identity`
RowsOf(sheet, identity) ==
    { k \in 2..Len(sheet) : Len(sheet[k].vals) > 1 /\ Lower(Strip(sheet[k].vals[2])) = identity }

\* two records of one normalized identity were reconciled one after the other
\* in one run, each returning a status
DuplicatePair ==
    /\ Returned
    /\ result.status # "error"
    /\ pre.prev.status \in { "new", "updated", "unchanged" }
    /\ ~pre.prev.reloaded
    /\ Lower(Strip(pre.prev.record["NICK NAME"])) = Identity

\* C6: duplicate identity, last write wins: after A(v1) then A(v2) in one run
\* the index entry of A and the single persisted row of A both hold v2, and
\* the two log rows, when the remote accepted them, are the last two of the
\* Logs sheet in that order.
C6_LastWriteWins ==
    DuplicatePair =>
        /\ Identity \in DOMAIN existing_profiles
        /\ existing_profiles[Identity].data = wp.row_values
        /\ RowsOf(profiles, Identity) = { existing_profiles[Identity].row }
        /\ \A k \in RowsOf(profiles, Identity) : profiles[k].vals = wp.row_values
        /\ \A i \in OpsOf("log"), j \in { j \in 1..Len(pre.prev.ops) : pre.prev.ops[j].func = "log" } :
              (ops[i].ok /\ pre.prev.ops[j].ok) =>
                  logs = SubSeq(logs, 1, pre.prev.nlogs)
                           \o << pre.prev.ops[j].arg.values, ops[i].arg.values >>

\* C7: the index entry of an identity is created or replaced only when the
\* primary row write was applied: when the append or overwrite failed, the
\* index is as it was before the record.
C7_IndexOnlyOnAppliedWrite ==
    (Returned /\ PrimaryFailed) => existing_profiles = pre.index

\* C8: index invariant: between operations, every index entry points at a row
\* of the Profiles sheet whose identity cell is that entry's identity.
C8_IndexInvariant ==
    pc = "ready" =>
        \A identity \in DOMAIN existing_profiles :
            existing_profiles[identity].row \in RowsOf(profiles, identity)

\* C9: a record whose primary row write failed is a per-record failure:
\* write_profile does not return new or updated for it and the run counts it
\* in failed, not in success.
C9_FailedWriteIsFailure ==
    (Returned /\ PrimaryFailed) =>
        /\ result.status \notin { "new", "updated" }
        /\ CountedAs(result) = "failed"

RECURSIVE SleptFor(_)
\* the time.sleep calls of safe_update over the outcomes met: SHEET_WRITE_DELAY
\* after a success, the backoff after a throttled attempt, none after another error
SleptFor(trace) ==
    IF trace = << >> THEN 0
    ELSE LET n == Len(trace)
         IN  SleptFor(SubSeq(trace, 1, n - 1))
               + (CASE trace[n] = "ok"       -> SHEET_WRITE_DELAY
                    [] trace[n] = "throttle" -> wait_time(n - 1)
                    [] OTHER                 -> 0)

C11_BoundedRetries ==
    /\ [](/\ loop.calls <= max_retries
          /\ loop.calls = max_retries => loop.returned
          /\ loop.returned <=> pc = "su_done"
          /\ pc \in { "su_loop", "su_done" })
    /\ [][loop'.trace = Append(loop.trace, "throttle")
            => loop'.delay = loop.delay + Len(loop'.trace) * BackoffSeconds * 10]_vars
    /\ <>loop.returned

\* two throttled attempts, backed off 5 s then 10 s, then a success
C11_Witness ==
    /\ loop.trace = << "throttle", "throttle", "ok" >>
    /\ loop.returned
    /\ loop.delay = 5 * 10 + 10 * 10 + SHEET_WRITE_DELAY

\* the Profiles sheet a safe_update call of SpecSafeUpdate starts on

\* the sum 1 + 2 + ... + k
SumTo(k) == (k * (k + 1)) \div 2

\* C12: when k throttled attempts (0 <= k <= 2) precede a successful one, the
\* sheets and the result are those of an immediate success (the operation is
\* applied once to the sheet the call started on), and the time slept is one
\* SHEET_WRITE_DELAY plus the k backoffs of 5 s, 10 s.
C12_ThrottledThenSuccess ==
    LET tried == Len(loop.trace)
        throttled == tried - 1
    IN  (/\ loop.returned
         /\ tried > 0
         /\ loop.trace[tried] = "ok"
         /\ \A i \in 1..throttled : loop.trace[i] = "throttle") =>
            /\ throttled \in 0..2
            /\ loop.ok
            /\ loop.calls = throttled + 1
            /\ profiles = Applied(su.func, su.arg, PreloadedProfiles)
            /\ logs = IF su.func = "log" THEN << LOG_HEADERS, su.arg.values >> ELSE << LOG_HEADERS >>
            /\ loop.delay = SHEET_WRITE_DELAY + SumTo(throttled) * BackoffSeconds * 10

\* an append throttled on the first attempt lands once on the second, after
\* one backoff and one pacing delay
C12_Witness ==
    /\ loop.trace = << "throttle", "ok" >>
    /\ loop.returned
    /\ su.func = "append_row"
    /\ Len(profiles) = 3
    /\ loop.delay = SHEET_WRITE_DELAY + BackoffSeconds * 10

\* C13: a failed load of the Profiles sheet into the index aborts the run:
\* after it the run fetches no targets and reconciles no record, so no
\* write_profile call is made against the index a failed load leaves.
C13_FailedLoadAbortsRun ==
    run.phase \in { "targets", "next", "scrape", "write", "written", "count" } => run.load_ok

\* the identity load_existing_profiles reads in a row of get_all_values()
StoredIdentity(row) == IF Len(row) > 1 THEN Lower(Strip(row[2])) ELSE ""

\* C14: a successful load builds the index so that the header row is never an
\* entry, a row with an empty identity cell gives no entry, the keys are the
\* trimmed lower-cased identities, and an entry holds the 1-based sheet row
\* number and the values of the last row that carries its identity.
C14_LoadBuildsIndex ==
    (pc = "ready" /\ failedOps = 0) =>
        LET values == ProfilesValues(profiles)
        IN  /\ \A identity \in DOMAIN existing_profiles :
                 LET entry == existing_profiles[identity]
                 IN  /\ identity # ""
                     /\ entry.row \in 2..Len(values)
                     /\ StoredIdentity(values[entry.row]) = identity
                     /\ entry.data = values[entry.row]
                     /\ \A later \in (entry.row + 1)..Len(values) :
                          StoredIdentity(values[later]) # identity
            /\ \A k \in 2..Len(values) :
                 StoredIdentity(values[k]) # "" => StoredIdentity(values[k]) \in DOMAIN existing_profiles

\* a loaded sheet with the same identity in rows 2 and 4 in two spellings, an
\* empty identity cell in row 3, indexed at row 4
C14_Witness ==
    /\ pc = "ready"
    /\ failedOps = 0
    /\ ProfilesValues(profiles) =
          << COLUMN_ORDER, << "", "sam", "Lahore" >>, << "", "", "Lahore" >>, << "", " Sam ", "Karachi" >> >>
    /\ DOMAIN existing_profiles = { "sam" }
    /\ existing_profiles["sam"] = [ row |-> 4, data |-> << "", " Sam ", "Karachi" >> ]

\* C15: every write_profile call, whatever its outcome (new, updated,
\* unchanged, failed or missing identity) and whatever remote failures occur,
\* makes the Logs sheet grow by exactly one row, the row of that record.
C15_OneLogRowPerCall ==
    (pc = "ready" /\ result.status # "none") =>
        /\ Len(logs) = Len(pre.logs) + 1
        /\ SubSeq(logs, 1, Len(pre.logs)) = pre.logs
        /\ logs[Len(logs)][2] = Nickname(wp.record)

RECURSIVE IsSubsequence(_, _)
\* TRUE when the sequence `some` is `all` with elements left out, the order kept
IsSubsequence(some, all) ==
    IF Len(some) = 0 THEN TRUE
    ELSE IF Len(all) = 0 THEN FALSE
    ELSE IF Head(some) = Head(all) THEN IsSubsequence(Tail(some), Tail(all))
    ELSE IsSubsequence(some, Tail(all))

\* the identities of the rows of the Logs sheet below its header, top to bottom
LoggedNicknames == [ k \in 1..(Len(logs) - 1) |-> logs[k + 1][2] ]

\* C16: the rows of the Logs sheet are in the order in which their records
\* were reconciled (a record reconciled earlier has its row, if it has one,
\* above the row of a record reconciled later), and no step modifies, reorders
\* or deletes a row that is already there: a step leaves the sheet alone or
\* adds the row of the running log_change below the others.
C16_LogOrderIsReconciliationOrder ==
    /\ [](IsSubsequence(LoggedNicknames, run.order))
    /\ [][\/ logs' = logs
          \/ (pc = "su" /\ su.func = "log" /\ logs' = Append(logs, su.arg.values))]_vars

\* two records reconciled in one run, both logged
C16_Witness ==
    /\ run.order = << "sam", "bob" >>
    /\ LoggedNicknames = << "sam", "bob" >>
    /\ run.phase = "done"

\* the Run# cells of the rows of the Dashboard sheet below its header
RunNumbers == [ k \in 1..(Len(dashboard) - 1) |-> dashboard[k + 1][1] ]

\* the decimal numerals the model's Run# cells can hold, by value
NumeralValue(text) == CHOOSE n \in 0..9 : ToString(n) = text

\* C17: the Run# written in the metrics rows is strictly increasing across
\* successive runs: when a run has appended its row below the row of an
\* earlier run, its Run# is greater than the earlier one's.
C17_RunNumberIncreases ==
    (/\ run.phase = "done"
     /\ Len(run.dash0) > 1
     /\ run.dash0[1] = DASHBOARD_HEADERS
     /\ Len(dashboard) = Len(run.dash0) + 1) =>
        NumeralValue(RunNumbers[Len(RunNumbers)]) > NumeralValue(RunNumbers[Len(RunNumbers) - 1])

\* the outcome buckets of a run: failed and the three kinds of success
Buckets == { "failed", "new", "updated", "unchanged" }

\* a row of the Dashboard sheet that is a metrics row
IsMetricsRow(row) == Len(row) = Len(DASHBOARD_HEADERS) /\ row # DASHBOARD_HEADERS

\* C18: metrics consistency: after each loop iteration i, success + failed = i;
\* in a metrics row, processed = success + failed and success = new + updated
\* + unchanged; and an iteration counts its record in exactly one bucket.
C18_MetricsConsistent ==
    /\ [](run.phase \in { "next", "scrape", "write", "written", "count" } =>
            /\ run.success + run.failed = run.i
            /\ run.success = run.new + run.updated + run.unchanged)
    /\ [](\A k \in 1..Len(dashboard) :
            IsMetricsRow(dashboard[k]) =>
               LET n == [ j \in 3..8 |-> NumeralValue(dashboard[k][j]) ]
               IN  /\ n[3] = n[4] + n[5]
                   /\ n[4] = n[6] + n[7] + n[8])
    /\ [][run'.i = run.i + 1 =>
            \E bucket \in Buckets :
               /\ run'[bucket] = run[bucket] + 1
               /\ \A other \in Buckets \ { bucket } : run'[other] = run[other]
               /\ run'.success = run.success + (IF bucket = "failed" THEN 0 ELSE 1)]_vars

\* a run of two targets, one written and one failed, has appended its row
C18_Witness ==
    /\ run.phase = "done"
    /\ run.i = 2
    /\ run.success = 1
    /\ run.failed = 1
    /\ Len(dashboard) > 1
    /\ dashboard[Len(dashboard)] = << "1", "ts", "2", "1", "1", "0", "1", "0" >>

\* C19: every run that passes setup and is not interrupted appends exactly
\* one row to the Dashboard sheet, a run that finds no pending target included:
\* when the run is over its metrics row is the last row of the sheet, below
\* the rows that were there when the sheet carried the expected header.
C19_OneMetricsRowPerRun ==
    (run.phase = "done" /\ run.ended \notin FatalStages \cup { "interrupt" }) =>
        /\ Len(dashboard) > 1
        /\ dashboard[Len(dashboard)] = MetricsRow(run)
        /\ (Len(run.dash0) > 0 /\ run.dash0[1] = DASHBOARD_HEADERS) =>
              dashboard = Append(run.dash0, MetricsRow(run))

\* C20: update_dashboard clears the Dashboard sheet and rewrites the header if
\* and only if the stored first row differs from the expected header; when it
\* matches, the stored rows are kept and exactly one row is appended below
\* them; after the call the first row of the sheet is the expected header.
C20_DashboardHeaderAndRows ==
    [][(run.phase = "next" /\ run'.phase = "done" /\ run'.ended = "finished") =>
          LET matches == IF Len(dashboard) = 0 THEN FALSE ELSE dashboard[1] = DASHBOARD_HEADERS
          IN  /\ matches => dashboard' = Append(dashboard, MetricsRow(run))
              /\ ~matches => dashboard' = << DASHBOARD_HEADERS, MetricsRow(run) >>
              /\ Len(dashboard') > 0
              /\ dashboard'[1] = DASHBOARD_HEADERS]_vars

\* the status cell (column B) of a row of the Target sheet
StatusCell(row_num) == TargetCell(target_sheet[row_num], 2)

\* the remarks cell (column C) of a row of the Target sheet
RemarksCell(row_num) == TargetCell(target_sheet[row_num], 3)

\* C21: for every processed target the status cell reads Processing before
\* and during its fetch and reconciliation; after its reconciliation, and
\* before the next target's Processing write, it holds exactly one terminal
\* status with a remark: Completed if the outcome was new, updated or
\* unchanged, Failed otherwise.
C21_StatusCellProtocol ==
    /\ [](run.phase \in { "scrape", "write", "written", "count" } =>
            StatusCell(Target.row) = "Processing")
    /\ [](\A k \in 1..run.i : StatusCell(run.targets[k].row) \in { "Completed", "Failed" })
    /\ [](run.phase = "done" /\ run.ended # "interrupt" =>
            \A k \in 1..Len(run.targets) : StatusCell(run.targets[k].row) \in { "Completed", "Failed" })
    /\ [][run'.i = run.i + 1 =>
            /\ TargetCell(target_sheet'[Target.row], 2) =
                  (IF run.phase = "written" /\ result.status \in { "new", "updated", "unchanged" }
                   THEN "Completed" ELSE "Failed")
            /\ TargetCell(target_sheet'[Target.row], 3) # ""]_vars

\* C22: when the fetch of a target yields no profile (after at most two scrape
\* attempts) the failure stays with that target: it is counted failed, its
\* status cell is set to Failed, the Profiles sheet, the index and the Logs
\* sheet are left as they are, and the loop goes on to the next target.
C22_ScrapeFailureIsolated ==
    /\ [](run.phase = "count" => run.scrapes \in 1..2 /\ run.profile = EmptyMap)
    /\ [][run.phase = "count" /\ run'.phase # "count" /\ run'.ended # "interrupt" =>
            /\ run'.failed = run.failed + 1
            /\ run'.success = run.success
            /\ run'.i = run.i + 1
            /\ run'.phase = "next"
            /\ TargetCell(target_sheet'[Target.row], 2) = "Failed"
            /\ profiles' = profiles
            /\ existing_profiles' = existing_profiles
            /\ logs' = logs]_vars

\* C23: the process exits with a non-zero status only on a fatal setup
\* failure (browser, login or sheets setup), before any record is processed;
\* once the run is past setup, whatever happens (a failed record, a failed
\* remote operation, an exception, an interrupt) it ends with status zero.
C23_ExitStatus ==
    /\ run.exit # 0 =>
          /\ run.phase = "done"
          /\ run.ended \in FatalStages
          /\ run.targets = << >> /\ run.i = 0 /\ run.scrapes = 0
    /\ run.phase \in { "targets", "next", "scrape", "write", "written", "count" } => run.exit = 0
    /\ (run.phase = "done" /\ run.ended \in { "no_targets", "exception", "interrupt", "finished" }) =>
          run.exit = 0
    /\ (run.phase = "done" /\ run.ended \in FatalStages) => run.exit = 1

\* a run ended by an exception out of write_profile, with status zero
C23_Witness ==
    /\ run.phase = "done"
    /\ run.ended = "exception"
    /\ result.status = "raised"
    /\ run.exit = 0

\* the values of the primary row writes (append_row, update) of the current call
PrimaryWrites == OpsOf("append_row") \cup OpsOf("update")

\* C24: the identity cell of every row write_profile writes to the Profiles
\* sheet, and of the values it stores in the index, is the record's NICK NAME
\* as given (stripped), also when that name is one of the 'no value' phrases;
\* an overwrite leaves the identity cell of the stored row as it was, up to
\* letter case.
C24_IdentityNeverAltered ==
    /\ \A i \in PrimaryWrites : ops[i].arg.values[2] = wp.nickname
    /\ (Returned /\ result.status \in { "new", "updated" }) =>
          existing_profiles[Identity].data[2] = wp.nickname
    /\ \A i \in OpsOf("update") :
          Lower(ops[i].arg.values[2]) = Lower(Strip(pre.index[Identity].data[2]))

\* the phrases clean_data blanks, in lower case
SentinelPhrases == { Lower(phrase) : phrase \in replace_with_blank }

\* C25: clean_data returns "" for every 'no value' phrase in whatever letter
\* case it is written, and returns every other non-empty value stripped and
\* otherwise unchanged.
C25_SentinelsBlankedInAnyCase ==
    (helper.func = "clean_data" /\ helper.returned) =>
        helper.ret = (IF Lower(Strip(helper.arg)) \in SentinelPhrases THEN "" ELSE Strip(helper.arg))

\* the text is one that convert_relative_date_to_absolute resolves to a date
Recognized(relative_text) ==
    LET text == Normalize(Strip(Lower(relative_text)), 1)
    IN  \/ text \in { "just now", "now", "yesterday" }
        \/ SearchArticle(text) # 0
        \/ SearchNumber(text) # 0

\* C26: convert_relative_date_to_absolute returns a text that is not a
\* relative time as it received it: the same characters in the same case.
C26_UnrecognizedTextUnchanged ==
    (helper.func = "convert_relative_date_to_absolute" /\ helper.returned /\ ~Recognized(helper.arg)) =>
        helper.ret = helper.arg

\* the date `days` days before the instant
DaysBefore(now, days) == strftime(<< now[1] - days, now[2] >>)

\* C27: "<n> months ago" resolves to the date 30 * n days before the
\* reference instant, "<n> days ago" to n days before, "<n> weeks ago" to
\* 7 * n days before, "yesterday" to one day before and "just now" to the
\* date of the reference instant.
C27_RelativeDates ==
    (helper.func = "convert_relative_date_to_absolute" /\ helper.returned) =>
        /\ \A n \in 0..MaxAmount :
              /\ helper.arg \in { ToString(n) \o " months ago", ToString(n) \o " month ago" }
                    => helper.ret = DaysBefore(helper.now, 30 * n)
              /\ helper.arg \in { ToString(n) \o " days ago", ToString(n) \o " day ago" }
                    => helper.ret = DaysBefore(helper.now, n)
              /\ helper.arg \in { ToString(n) \o " weeks ago", ToString(n) \o " week ago" }
                    => helper.ret = DaysBefore(helper.now, 7 * n)
        /\ helper.arg = "yesterday" => helper.ret = DaysBefore(helper.now, 1)
        /\ helper.arg = "just now" => helper.ret = DaysBefore(helper.now, 0)

\* "2 months ago", read on 1 November 2026, gave 2 September 2026
C27_Witness ==
    /\ helper.returned
    /\ helper.arg = "2 months ago"
    /\ helper.now[1] = Ordinal(2026, 11, 1)
    /\ helper.ret = "02-Sep-26"

\* C28: a write_profile call that ends as unchanged, or with the missing
\* nickname error, issues no append, no row overwrite and no formula write
\* to the Profiles sheet, and leaves the sheet and every index entry (row and
\* values) as they were when the call began.
C28_NoWritePlanNoChange ==
    (pc # "start" /\ wp.kind \in { "unchanged", "error" }) =>
        /\ \A i \in 1..Len(ops) : ops[i].func \notin { "append_row", "update", "formula" }
        /\ su.func \notin { "append_row", "update", "formula" }
        /\ Returned => result.status = wp.kind
        /\ existing_profiles = pre.index
        /\ profiles = pre.profiles

\* an unchanged record was logged and returned, the index holding what it held
C28_Witness ==
    /\ Returned
    /\ result.status = "unchanged"
    /\ OpsOf("log") # {}
    /\ Identity \in DOMAIN existing_profiles
    /\ existing_profiles = pre.index

\* write_profile is between its first remote call and its return
InWriteProfile == pc \in { "su", "wp_new_row", "wp_formulas", "wp_finish" }

\* C29: in a new or updated call the row write comes first, the log append
\* second and the index assignment last: the index changes only once the
\* log row of the call has been appended, and the three are done when the
\* call returns, before the next record is looked up.
C29_WriteThenLogThenIndex ==
    /\ [][(InWriteProfile /\ existing_profiles' # existing_profiles) =>
             /\ PrimaryWrites # {}
             /\ OpsOf("log") # {}
             /\ \A i \in PrimaryWrites : \A j \in OpsOf("log") : i < j]_vars
    /\ []((Returned /\ result.status \in { "new", "updated" }) =>
             /\ PrimaryWrites # {}
             /\ OpsOf("log") # {}
             /\ Identity \in DOMAIN existing_profiles
             /\ existing_profiles[Identity].data = wp.row_values)

\* the letter of the p-th column of a sheet, p <= 26
LetterOfPosition(p) == UpperChars[p]

\* C30: the overwrite of an updated record is addressed to the row the index
\* held for it, which the index keeps, and its range runs from the column of
\* the first declared field to the column of the last one (18 columns) and
\* no further; each link formula is written after the row overwrite, to the
\* cell of that row whose column is the position of the link field in
\* COLUMN_ORDER.
C30_OverwriteRangeAndLinkCells ==
    (InWriteProfile /\ wp.kind = "updated") =>
        /\ \A i \in OpsOf("update") :
              /\ i = 1
              /\ ops[i].arg.row = pre.index[Identity].row
              /\ ops[i].arg.range_name =
                    LetterOfPosition(1) \o ToString(pre.index[Identity].row) \o ":"
                    \o LetterOfPosition(NCols) \o ToString(pre.index[Identity].row)
        /\ \A j \in OpsOf("formula") :
              /\ j > 1
              /\ ops[j].arg.range_name =
                    LetterOfPosition(COLUMN_TO_INDEX(ops[j].arg.col) + 1) \o ToString(pre.index[Identity].row)
        /\ Identity \in DOMAIN existing_profiles
        /\ existing_profiles[Identity].row = pre.index[Identity].row

\* the normalized identity held by a row of the Profiles sheet
RowIdentity(sheet_row) == Lower(Strip(sheet_row.vals[2]))

\* C31: a write_profile call for a record of one identity leaves the row of
\* the Profiles sheet and the index entry of every other identity as they
\* were when the call began, whatever remote operations are rejected.
C31_OtherIdentitiesUntouched ==
    (pc # "start" /\ wp.kind \in { "new", "updated", "unchanged" }) =>
        /\ \A other \in DOMAIN pre.index :
              other # Identity =>
                 /\ other \in DOMAIN existing_profiles
                 /\ existing_profiles[other] = pre.index[other]
        /\ \A k \in 2..Len(pre.profiles) :
              RowIdentity(pre.profiles[k]) # Identity =>
                 /\ k <= Len(profiles)
                 /\ profiles[k] = pre.profiles[k]

\* the rows of the Target sheet that hold a nickname and the Processing status
ProcessingRows ==
    { k \in 2..Len(target_sheet) :
        TargetCell(target_sheet[k], 1) # "" /\ StatusCell(k) = "Processing" }

\* the rows of the targets a run selected
RowsOfTargets(targets) == { targets[t].row : t \in 1..Len(targets) }

\* C32: a target row set to Processing reaches Completed or Failed, in the
\* same run or a later one: a run whose read of the Target sheet succeeds
\* selects every row it finds at Processing, and every row at Processing is
\* later at Completed or Failed.
C32_ProcessingReachesTerminal ==
    /\ [][(run.phase = "targets" /\ run'.phase # "targets" /\ failedOps' = failedOps) =>
             ProcessingRows \subseteq RowsOfTargets(run'.targets)]_vars
    /\ \A k \in 2..3 :
          (k \in ProcessingRows) ~> (k <= Len(target_sheet) /\ StatusCell(k) \in { "Completed", "Failed" })

\* the rows of the Target sheet with a nickname and the pending status
PendingRows(sheet) ==
    { k \in 2..Len(sheet) :
        Len(sheet[k]) > 0 /\ TargetCell(sheet[k], 1) # "" /\ Lower(TargetCell(sheet[k], 2)) = "pending" }

\* the rows a run may select: every pending row, or the MAX_PROFILES_PER_RUN
\* first ones when the limit is positive
SelectableRows(sheet) ==
    IF MAX_PROFILES_PER_RUN > 0
    THEN { k \in PendingRows(sheet) :
             Cardinality({ j \in PendingRows(sheet) : j < k }) < MAX_PROFILES_PER_RUN }
    ELSE PendingRows(sheet)

\* C33: a run selects exactly the rows of the Target sheet that hold a
\* nickname and the pending status (the first MAX_PROFILES_PER_RUN of them
\* when the limit is positive), processes each of them once, in row order,
\* and writes the status cell of no other row.
C33_ExactlyThePendingRows ==
    /\ [][(run.phase = "targets" /\ run'.phase # "targets" /\ failedOps' = failedOps) =>
             /\ RowsOfTargets(run'.targets) = SelectableRows(target_sheet)
             /\ \A s, t \in 1..Len(run'.targets) : s < t => run'.targets[s].row < run'.targets[t].row]_vars
    /\ [][run.phase \notin { "idle", "done", "setup", "targets" } =>
             /\ run'.targets = run.targets
             /\ run'.i \in { run.i, run.i + 1 }
             /\ \A k \in 2..Len(target_sheet) :
                   target_sheet'[k] # target_sheet[k] => (run.i < Len(run.targets) /\ k = Target.row)]_vars
    /\ []((run.phase = "done" /\ run.ended \notin FatalStages \cup { "interrupt" }) =>
             run.i + (IF run.ended = "exception" THEN 1 ELSE 0) = Len(run.targets))

====
